---- MODULE Spec2Model ----
(***************************************************************************)
(* Model of the trend collector of daily-trending-info:                    *)
(*   scripts/collect_trends.py   TrendCollector (resilient feed fetch,     *)
(*                               circuit breaker, two cache tiers,         *)
(*                               collect_all) and Trend                    *)
(*   scripts/source_catalog.py   DOMAIN_FETCH_PROFILES                     *)
(*   scripts/source_registry.py  source metadata                           *)
(*                                                                         *)
(* Python's None and the empty string are both falsy in every test the     *)
(* fetch code makes on keys and urls (`source_key or url`,                 *)
(* `fallback_url or metadata_fallback`, `allow_fallback and fallback_url`),*)
(* so an absent key or url is the empty string "".  Dictionaries are       *)
(* functions whose DOMAIN is the set of keys present.  Byte strings and    *)
(* header values are sequences of character codes.                         *)
(***************************************************************************)
EXTENDS Integers, Sequences, FiniteSets, TLC

VARIABLES
    now,                     \* the value time.time() returns
    ticks,                   \* number of clock advances so far
    calls,                   \* number of _fetch_rss calls made so far
    feed_failures,           \* TrendCollector.feed_failures: scope -> circuit state
    feed_cache,              \* TrendCollector.feed_cache: scope -> in-memory entry
    persistent_feed_cache,   \* TrendCollector.persistent_feed_cache: scope -> persisted entry
    persistent_cache_dirty,  \* TrendCollector._persistent_cache_dirty
    file_writes,             \* the documents this collector wrote to feed_cache_file, in order
    last,                    \* record of the most recent _fetch_rss call
    records,                 \* the Trend objects constructed so far
    last_op,                 \* the last operation on a Trend: "none", "construct", "register"
    pc,                      \* position of collect_all, 0 when it is not running
    trends,                  \* TrendCollector.trends
    pre_dedup_count,         \* TrendCollector.pre_dedup_count
    tier_at_start,           \* the persisted tier as it was when collect_all was called
    global_keywords,         \* TrendCollector.global_keywords
    outputs,                 \* what each collector run so far did: raised, or its Trends
    config,                  \* the thresholds config.py sets for the deduplicator
    given,                   \* the list TrendCollector.trends was loaded with
    other_trends,            \* trends of a second collector loaded with the same records in another order
    trends_before,           \* trends as it was before the latest operation on it
    ops,                     \* the operations run on trends so far: "dedup", "score", "rank"
    workers,                 \* the workers argument of run_health_check
    waiting,                 \* sources whose probe is submitted and not yet started
    running,                 \* sources whose probe a worker thread is running
    finished,                \* completed futures the main thread has not yet taken: source -> outcome
    results,                 \* the results list of run_health_check
    report,                  \* what run_health_check returned
    default_timeout,         \* TrendCollector.default_timeout, seconds
    feed_timeout,            \* TrendCollector.feed_timeout, seconds
    source_call,             \* the latest _fetch_source_feed call: its source, timeout and requests
    hn_pc,                   \* where _collect_hackernews is: "idle", "pool", "returned"
    limit,                   \* limit of _collect_hackernews
    story_ids,               \* story_ids of _collect_hackernews
    submitted,               \* indexes whose _fetch_story is submitted and not yet started
    fetching,                \* indexes whose _fetch_story a worker thread is running
    completed,               \* completed futures the main thread has not yet taken: index -> result
    fetched,                 \* the fetched list of _collect_hackernews
    hn_trends                \* what _collect_hackernews returned

fetchVars == <<now, ticks, calls, feed_failures, feed_cache,
               persistent_feed_cache, persistent_cache_dirty,
               file_writes, last>>

trendVars == <<records, last_op>>

runVars == <<pc, trends, pre_dedup_count, tier_at_start, global_keywords, outputs, config>>

rankVars == <<given, other_trends, trends_before, ops>>

healthVars == <<workers, waiting, running, finished, results, report>>

sourceVars == <<default_timeout, feed_timeout, source_call>>

hnVars == <<hn_pc, limit, story_ids, submitted, fetching, completed, fetched, hn_trends>>

vars == <<fetchVars, trendVars, runVars, rankVars, healthVars, sourceVars, hnVars>>

----------------------------------------------------------------------------
(* Bounds of the model *)

MaxTicks == 2
MaxCalls == 2
MaxRecords == 2
MaxBatch == 3
StartTime == 100000

\* The clock advances by one of these amounts between calls: 200 stays
\* within the cooldown and the in-memory TTL, 86200 passes both.
ClockSteps == {200, 86200}

----------------------------------------------------------------------------
(* Program constants *)

feed_cache_ttl_seconds == 600
feed_persistent_ttl_seconds == 86400
feed_cooldown_seconds == 300
feed_failure_threshold == 2
AllowedStatus == {200, 301, 302}

----------------------------------------------------------------------------
(* Sequences of character codes *)

Lower(s) == [i \in 1..Len(s) |-> IF s[i] >= 65 /\ s[i] <= 90 THEN s[i] + 32 ELSE s[i]]

Take(s, n) == IF Len(s) <= n THEN s ELSE SubSeq(s, 1, n)

\* Python's `sub in s` for byte strings and strings
Contains(s, sub) ==
    \E i \in 0..(Len(s) - Len(sub)) :
        \A j \in 1..Len(sub) : s[i + j] = sub[j]

TagRss  == <<60, 114, 115, 115>>            \* "<rss"
TagXml  == <<60, 63, 120, 109, 108>>        \* "<?xml"
TagFeed == <<60, 102, 101, 101, 100>>       \* "<feed"
WordXml == <<120, 109, 108>>                \* "xml"
WordRss == <<114, 115, 115>>                \* "rss"

\* base64.b64encode: 3 bytes -> 4 sextets, code 64 stands for the pad "="
RECURSIVE B64Encode(_)
B64Encode(b) ==
    IF Len(b) = 0 THEN <<>>
    ELSE IF Len(b) = 1 THEN
        LET n == b[1] * 65536
        IN  <<n \div 262144, (n \div 4096) % 64, 64, 64>>
    ELSE IF Len(b) = 2 THEN
        LET n == b[1] * 65536 + b[2] * 256
        IN  <<n \div 262144, (n \div 4096) % 64, (n \div 64) % 64, 64>>
    ELSE
        LET n == b[1] * 65536 + b[2] * 256 + b[3]
        IN  <<n \div 262144, (n \div 4096) % 64, (n \div 64) % 64, n % 64>>
            \o B64Encode(SubSeq(b, 4, Len(b)))

\* base64.b64decode of a padded string of sextets
RECURSIVE B64Decode(_)
B64Decode(s) ==
    IF Len(s) < 4 THEN <<>>
    ELSE
        LET n == s[1] * 262144 + s[2] * 4096
                 + (IF s[3] = 64 THEN 0 ELSE s[3] * 64)
                 + (IF s[4] = 64 THEN 0 ELSE s[4])
            bytes == <<n \div 65536, (n \div 256) % 256, n % 256>>
            group == IF s[3] = 64 THEN SubSeq(bytes, 1, 1)
                     ELSE IF s[4] = 64 THEN SubSeq(bytes, 1, 2)
                     ELSE bytes
        IN  group \o B64Decode(SubSeq(s, 5, Len(s)))

----------------------------------------------------------------------------
(* Source catalog and registry *)

UrlPrimary  == "https://primary.test/feed"
UrlDefense  == "https://breakingdefense.com/feed/"
UrlWapo     == "https://feeds.washingtonpost.com/rss/national"
UrlHnRss    == "https://hnrss.org/frontpage"

KeyHn == "hackernews"

\* urlparse(url).hostname
Hostname(url) ==
    CASE url = UrlPrimary -> "primary.test"
      [] url = UrlDefense -> "breakingdefense.com"
      [] url = UrlWapo    -> "feeds.washingtonpost.com"
      [] url = UrlHnRss   -> "hnrss.org"
      [] OTHER            -> ""

\* DOMAIN_FETCH_PROFILES[hostname].get("attempts"), 0 when the host has no profile
ProfileAttempts(host) ==
    CASE host = "feeds.washingtonpost.com" -> 3
      [] host = "breakingdefense.com"      -> 2
      [] OTHER                             -> 0

\* attempts = max(1, int(domain_profile.get("attempts") or 1))
Attempts(url) ==
    LET a == ProfileAttempts(Hostname(url))
        b == IF a = 0 THEN 1 ELSE a
    IN  IF b < 1 THEN 1 ELSE b

\* source_metadata_dict(source_key or "").get("fallback_url"), "" for None
MetadataFallback(source_key) ==
    CASE source_key = KeyHn      -> UrlHnRss
      [] source_key = "lobsters"   -> "https://lobste.rs/rss"
      [] OTHER                     -> ""

----------------------------------------------------------------------------
(* Inputs of the model *)


Urls == {UrlPrimary, UrlDefense}
SourceKeys == {"", KeyHn}
Scopes == (SourceKeys \ {""}) \cup Urls

\* The calls of _fetch_rss the model makes: unkeyed and keyed, with no
\* fallback, with a fallback argument, with the registry's fallback for the
\* key, and with a fallback equal to the primary url.
FetchCalls ==
    { [url |-> UrlPrimary, source_key |-> "",    fallback_url |-> ""],
      [url |-> UrlPrimary, source_key |-> "",    fallback_url |-> UrlDefense],
      [url |-> UrlDefense, source_key |-> "",    fallback_url |-> UrlDefense],
      [url |-> UrlPrimary, source_key |-> KeyHn, fallback_url |-> ""],
      [url |-> UrlPrimary, source_key |-> KeyHn, fallback_url |-> UrlPrimary],
      [url |-> UrlDefense, source_key |-> KeyHn, fallback_url |-> UrlPrimary] }

\* every url a call of the model can request
AllUrls == (Urls \cup {MetadataFallback(k) : k \in SourceKeys}) \ {""}

BodyRss  == TagRss                        \* b"<rss"
BodyFeed == <<60, 70, 69, 69, 68>>        \* b"<FEED"
BodyHtml == <<60, 104, 49>>               \* b"<h1"

CtRss  == <<114, 115, 115>>                         \* "rss"
CtHtml == <<116, 101, 120, 116>>                    \* "text"

NoResponse == [status_code |-> 0, content |-> <<>>, ctype |-> <<>>, url |-> ""]

\* what session.get does for one request: raise, or return a response
NetRaise     == [kind |-> "exc",  status_code |-> 0,   content |-> <<>>,     ctype |-> <<>>]
NetForbidden == [kind |-> "resp", status_code |-> 403, content |-> BodyHtml, ctype |-> CtHtml]
NetHtml      == [kind |-> "resp", status_code |-> 200, content |-> BodyHtml, ctype |-> CtHtml]
NetFeedA     == [kind |-> "resp", status_code |-> 200, content |-> BodyRss,  ctype |-> CtRss]
NetFeedB     == [kind |-> "resp", status_code |-> 302, content |-> BodyFeed, ctype |-> CtHtml]

NetOutcomes == {NetRaise, NetForbidden, NetHtml, NetFeedA, NetFeedB}

FailOutcomes == {NetRaise, NetForbidden, NetHtml}
OkOutcomes == {NetFeedA, NetFeedB}

\* a kind of failure paired with the accepted response that follows it
ScriptPairs ==
    {<<NetRaise, NetFeedA>>, <<NetForbidden, NetFeedA>>,
     <<NetForbidden, NetFeedB>>, <<NetHtml, NetFeedB>>}

\* The scripts of n requests: what each successive session.get does.  A
\* call stops at the first accepted response, so a script is a number of
\* failed requests followed by accepted ones.
NetScripts(n) ==
    { [i \in 1..n |-> IF i <= fails THEN p[1] ELSE p[2]]
        : fails \in 0..n, p \in ScriptPairs }

\* timestamps of entries found in the persisted cache file at start-up
LoadedTimestamps == {StartTime - 86100, StartTime - 86401}

\* Entries json.load can deliver from the cache file.  `form` tells which
\* field has a value of the wrong JSON type: "bad_timestamp" (float() raises),
\* "bad_content" (content_b64 is not a string), "bad_status" (int() raises).
\* The model loads the first two of them.
LoadedEntries ==
    { [form |-> "ok", timestamp |-> ts, content_b64 |-> B64Encode(BodyRss),
       ctype |-> CtRss, status_code |-> 200, url |-> UrlPrimary] : ts \in LoadedTimestamps }
    \cup
    { [form |-> f, timestamp |-> StartTime - 86100, content_b64 |-> B64Encode(BodyRss),
       ctype |-> CtRss, status_code |-> 200, url |-> UrlPrimary]
        : f \in {"bad_timestamp", "bad_content"} }

----------------------------------------------------------------------------
(* Dictionaries *)

Pop(d, k) == [x \in (DOMAIN d) \ {k} |-> d[x]]

Put(d, k, v) == [x \in (DOMAIN d) \cup {k} |-> IF x = k THEN v ELSE d[x]]

EmptyDict == [x \in {} |-> 0]

Min(S) == CHOOSE x \in S : \A y \in S : x <= y

----------------------------------------------------------------------------
(* TrendCollector: circuit breaker *)

\* _feed_scope: source_key or url
FeedScope(source_key, url) == IF source_key # "" THEN source_key ELSE url

\* _is_feed_on_cooldown with the deadline compared the wrong way round
IsFeedOnCooldownReversed(ff, scope, t) ==
    IF scope \notin DOMAIN ff
    THEN [on |-> FALSE, feed_failures |-> ff]
    ELSE [on |-> t > ff[scope].cooldown_until, feed_failures |-> ff]

\* _is_feed_on_cooldown: the answer, and feed_failures after the call (an
\* expired cooldown is popped)
IsFeedOnCooldown(ff, scope, t) ==
    IF scope \notin DOMAIN ff
    THEN [on |-> FALSE, feed_failures |-> ff]
    ELSE IF t < ff[scope].cooldown_until
    THEN [on |-> TRUE, feed_failures |-> ff]
    ELSE IF ff[scope].cooldown_until > 0
    THEN [on |-> FALSE, feed_failures |-> Pop(ff, scope)]
    ELSE [on |-> FALSE, feed_failures |-> ff]

\* _record_feed_failure
RecordFeedFailure(ff, scope, t) ==
    LET state == IF scope \in DOMAIN ff THEN ff[scope]
                 ELSE [count |-> 0, cooldown_until |-> 0]
        count == state.count + 1
    IN  Put(ff, scope,
            [count |-> count,
             cooldown_until |-> IF count >= feed_failure_threshold
                                THEN t + feed_cooldown_seconds
                                ELSE state.cooldown_until])

\* _record_feed_success that forgets to drop the state
RecordFeedSuccessKept(ff, scope) == ff

\* _record_feed_success
RecordFeedSuccess(ff, scope) == Pop(ff, scope)

----------------------------------------------------------------------------
(* TrendCollector: the two cache tiers *)

\* _cache_feed_response: c is the collector's state, response what
\* session.get returned
CacheFeedResponse(c, scope, response, url, t) ==
    [c EXCEPT
        !.feed_cache = Put(@, scope,
            [timestamp |-> t, content |-> response.content,
             ctype |-> response.ctype,
             status_code |-> response.status_code, url |-> url]),
        !.persistent_feed_cache = Put(@, scope,
            [form |-> "ok", timestamp |-> t,
             content_b64 |-> B64Encode(response.content),
             ctype |-> response.ctype,
             status_code |-> response.status_code, url |-> url]),
        !.dirty = TRUE]

FetchNone == [kind |-> "none", resp |-> NoResponse, origin |-> ""]

FetchRaise == [kind |-> "raise", resp |-> NoResponse, origin |-> ""]

FetchResponse(resp, origin) == [kind |-> "response", resp |-> resp, origin |-> origin]

\* _response_from_cached: an in-memory entry carries `content`, a persisted
\* one `content_b64`
ResponseFromCached(cached, origin) ==
    IF "content" \in DOMAIN cached
    THEN FetchResponse([status_code |-> cached.status_code, content |-> cached.content,
                        ctype |-> cached.ctype, url |-> cached.url], origin)
    ELSE IF cached.form = "bad_content" THEN FetchNone
    ELSE IF cached.form = "bad_status" THEN FetchRaise
    ELSE FetchResponse([status_code |-> cached.status_code,
                        content |-> B64Decode(cached.content_b64),
                        ctype |-> cached.ctype, url |-> cached.url], origin)

\* the persisted half of _get_cached_feed_response
GetPersistedFeedResponse(c, scope, now_ts) ==
    IF scope \notin DOMAIN c.persistent_feed_cache
    THEN [c |-> c, result |-> FetchNone]
    ELSE LET persistent == c.persistent_feed_cache[scope]
         IN  IF persistent.form = "bad_timestamp"
             THEN [c |-> c, result |-> FetchRaise]
             ELSE IF now_ts - persistent.timestamp > feed_persistent_ttl_seconds
             THEN [c |-> [c EXCEPT !.persistent_feed_cache = Pop(@, scope),
                                   !.dirty = TRUE],
                   result |-> FetchNone]
             ELSE [c |-> c, result |-> ResponseFromCached(persistent, "persisted")]

\* _get_cached_feed_response that leaves an expired in-memory entry in place
GetCachedFeedResponseKeepsExpired(c, scope, now_ts) ==
    IF scope \in DOMAIN c.feed_cache
          /\ now_ts - c.feed_cache[scope].timestamp <= feed_cache_ttl_seconds
          /\ ResponseFromCached(c.feed_cache[scope], "memory").kind # "none"
    THEN [c |-> c, result |-> ResponseFromCached(c.feed_cache[scope], "memory")]
    ELSE GetPersistedFeedResponse(c, scope, now_ts)

\* _get_cached_feed_response
GetCachedFeedResponse(c, scope, now_ts) ==
    IF scope \in DOMAIN c.feed_cache
    THEN IF now_ts - c.feed_cache[scope].timestamp <= feed_cache_ttl_seconds
         THEN LET response == ResponseFromCached(c.feed_cache[scope], "memory")
              IN  IF response.kind # "none"
                  THEN [c |-> c, result |-> response]
                  ELSE GetPersistedFeedResponse(c, scope, now_ts)
         ELSE GetPersistedFeedResponse(
                  [c EXCEPT !.feed_cache = Pop(@, scope)], scope, now_ts)
    ELSE GetPersistedFeedResponse(c, scope, now_ts)

----------------------------------------------------------------------------
(* TrendCollector: _fetch_rss *)

\* _is_feed_response that trusts the content type alone
IsFeedResponseByType(response) ==
    LET content_type == Lower(response.ctype)
    IN  Contains(content_type, WordXml) \/ Contains(content_type, WordRss)

\* _is_feed_response
IsFeedResponse(response) ==
    LET content_type == Lower(response.ctype)
        head == Lower(Take(response.content, 120))
    IN  \/ Contains(content_type, WordXml)
        \/ Contains(content_type, WordRss)
        \/ Contains(head, TagRss)
        \/ Contains(head, TagXml)
        \/ Contains(head, TagFeed)

\* what the i-th session.get of a call does; a script that has run out
\* raises, as an exhausted mock does
Outcome(net, i) == IF i <= Len(net) THEN net[i] ELSE NetRaise

\* the test of an attempt without the call of _is_feed_response
AcceptedByStatus(outcome) ==
    /\ outcome.kind = "resp"
    /\ outcome.status_code \in AllowedStatus

\* the test one attempt of the loop makes on what session.get did
Accepted(outcome) ==
    /\ outcome.kind = "resp"
    /\ outcome.status_code \in AllowedStatus
    /\ IsFeedResponse(outcome)

\* The tail of _fetch_rss after every network attempt failed (lines 753-761)
FetchFailed(c, scope, t, now_ts) ==
    GetCachedFeedResponse(
        [c EXCEPT !.feed_failures = RecordFeedFailure(@, scope, t)], scope, now_ts)

\* the fallback condition without the allow_fallback flag
UseFallbackChained(allow_fallback, fallback_url, url) ==
    fallback_url # "" /\ fallback_url # url

\* the condition under which _fetch_rss turns to the fallback (line 737)
UseFallback(allow_fallback, fallback_url, url) ==
    allow_fallback /\ fallback_url # "" /\ fallback_url # url

\* the most requests a call can make: the attempts of the primary, and of
\* the fallback when there is one to turn to
RequestBudget(call) ==
    LET fallback_url == IF call.fallback_url # "" THEN call.fallback_url
                        ELSE MetadataFallback(call.source_key)
    IN  Attempts(call.url)
        + (IF fallback_url # "" /\ fallback_url # call.url
           THEN Attempts(fallback_url) ELSE 0)

\* _fetch_rss.  c is the collector's state, t the clock, net the outcomes of
\* the successive session.get calls.  Yields the collector's state after the
\* call, the result, and the urls requested in order.
RECURSIVE FetchRss(_, _, _, _, _, _, _)
FetchRss(c, t, url, source_key, fallback_arg, allow_fallback, net) ==
    LET scope == FeedScope(source_key, url)
        now_ts == t
        cd == IsFeedOnCooldown(c.feed_failures, scope, t)
        c0 == [c EXCEPT !.feed_failures = cd.feed_failures]
    IN
    IF cd.on
    THEN LET cached == GetCachedFeedResponse(c0, scope, now_ts)
         IN  [c |-> cached.c, result |-> cached.result, reqs |-> <<>>]
    ELSE
    LET fallback_url == IF fallback_arg # "" THEN fallback_arg
                        ELSE MetadataFallback(source_key)
        attempts == Attempts(url)
        good == {i \in 1..attempts : Accepted(Outcome(net, i))}
        made == IF good = {} THEN attempts ELSE Min(good)
        reqs == [i \in 1..made |-> url]
    IN
    IF good # {}
    THEN LET response == net[made]
             c1 == [c0 EXCEPT !.feed_failures = RecordFeedSuccess(@, scope)]
         IN  [c |-> CacheFeedResponse(c1, scope, response, url, t),
              result |-> FetchResponse(
                  [status_code |-> response.status_code, content |-> response.content,
                   ctype |-> response.ctype, url |-> url], "network"),
              reqs |-> reqs]
    ELSE
    IF UseFallback(allow_fallback, fallback_url, url)
    THEN LET fb == FetchRss(c0, t, fallback_url, source_key, "", FALSE,
                            IF made < Len(net)
                            THEN SubSeq(net, made + 1, Len(net)) ELSE <<>>)
         IN  IF fb.result.kind = "raise"
             THEN [c |-> fb.c, result |-> fb.result, reqs |-> reqs \o fb.reqs]
             ELSE IF fb.result.kind = "response"
             THEN [c |-> [fb.c EXCEPT !.feed_failures = RecordFeedSuccess(@, scope)],
                   result |-> fb.result, reqs |-> reqs \o fb.reqs]
             ELSE LET f == FetchFailed(fb.c, scope, t, now_ts)
                  IN  [c |-> f.c, result |-> f.result, reqs |-> reqs \o fb.reqs]
    ELSE LET f == FetchFailed(c0, scope, t, now_ts)
         IN  [c |-> f.c, result |-> f.result, reqs |-> reqs]

----------------------------------------------------------------------------
(* Text: titles, descriptions and words are sequences of character codes *)

IsSpace(ch) == ch \in {9, 10, 11, 12, 13, 32}

IsDigit(ch) == ch \in 48..57

\* what the regular expression class \w matches among ASCII characters
IsWordChar(ch) == ch \in (48..57) \cup (65..90) \cup (97..122) \cup {95}

\* re.sub(r"[^\w\s]", " ", text)
PunctuationToSpace(s) ==
    [i \in 1..Len(s) |-> IF IsWordChar(s[i]) \/ IsSpace(s[i]) THEN s[i] ELSE 32]

\* str.split(): the maximal runs of characters that are not whitespace
RECURSIVE Split(_)
Split(s) ==
    IF s = <<>> THEN <<>>
    ELSE IF IsSpace(s[1]) THEN Split(Tail(s))
    ELSE LET ends == {i \in 1..Len(s) : IsSpace(s[i])}
             n == IF ends = {} THEN Len(s) + 1
                  ELSE CHOOSE i \in ends : \A j \in ends : i <= j
         IN  <<SubSeq(s, 1, n - 1)>> \o Split(SubSeq(s, n, Len(s)))

\* " ".join(words)
RECURSIVE Join(_)
Join(words) ==
    IF words = <<>> THEN <<>>
    ELSE IF Len(words) = 1 THEN words[1]
    ELSE words[1] \o <<32>> \o Join(Tail(words))

\* str.isdigit() on ASCII text
IsDigitWord(w) == w # <<>> /\ \A i \in 1..Len(w) : IsDigit(w[i])

Range(s) == {s[i] : i \in 1..Len(s)}

\* the elements of s that satisfy Keep, in order
RECURSIVE SelectWords(_, _)
SelectWords(s, keep) ==
    IF s = <<>> THEN <<>>
    ELSE IF Head(s) \in keep THEN <<Head(s)>> \o SelectWords(Tail(s), keep)
    ELSE SelectWords(Tail(s), keep)

Max(S) == CHOOSE x \in S : \A y \in S : x >= y

\* stop_words of Trend._extract_keywords
KeywordStopWords ==
      \* a about above add
    { <<97>>, <<97, 98, 111, 117, 116>>, <<97, 98, 111, 118, 101>>, <<97, 100, 100>>,
      \* after again all allow
      <<97, 102, 116, 101, 114>>, <<97, 103, 97, 105, 110>>, <<97, 108, 108>>, <<97, 108, 108, 111, 119>>,
      \* an and appear are
      <<97, 110>>, <<97, 110, 100>>, <<97, 112, 112, 101, 97, 114>>, <<97, 114, 101>>,
      \* as ask at be
      <<97, 115>>, <<97, 115, 107>>, <<97, 116>>, <<98, 101>>,
      \* been before begin believe
      <<98, 101, 101, 110>>, <<98, 101, 102, 111, 114, 101>>, <<98, 101, 103, 105, 110>>, <<98, 101, 108, 105, 101, 118, 101>>,
      \* below between both breaking
      <<98, 101, 108, 111, 119>>, <<98, 101, 116, 119, 101, 101, 110>>, <<98, 111, 116, 104>>, <<98, 114, 101, 97, 107, 105, 110, 103>>,
      \* bring build but buy
      <<98, 114, 105, 110, 103>>, <<98, 117, 105, 108, 100>>, <<98, 117, 116>>, <<98, 117, 121>>,
      \* by call can change
      <<98, 121>>, <<99, 97, 108, 108>>, <<99, 97, 110>>, <<99, 104, 97, 110, 103, 101>>,
      \* come consider continue could
      <<99, 111, 109, 101>>, <<99, 111, 110, 115, 105, 100, 101, 114>>, <<99, 111, 110, 116, 105, 110, 117, 101>>, <<99, 111, 117, 108, 100>>,
      \* create cut decide did
      <<99, 114, 101, 97, 116, 101>>, <<99, 117, 116>>, <<100, 101, 99, 105, 100, 101>>, <<100, 105, 100>>,
      \* die do does down
      <<100, 105, 101>>, <<100, 111>>, <<100, 111, 101, 115>>, <<100, 111, 119, 110>>,
      \* during each every expect
      <<100, 117, 114, 105, 110, 103>>, <<101, 97, 99, 104>>, <<101, 118, 101, 114, 121>>, <<101, 120, 112, 101, 99, 116>>,
      \* fall feel few find
      <<102, 97, 108, 108>>, <<102, 101, 101, 108>>, <<102, 101, 119>>, <<102, 105, 110, 100>>,
      \* follow for from further
      <<102, 111, 108, 108, 111, 119>>, <<102, 111, 114>>, <<102, 114, 111, 109>>, <<102, 117, 114, 116, 104, 101, 114>>,
      \* get getting give got
      <<103, 101, 116>>, <<103, 101, 116, 116, 105, 110, 103>>, <<103, 105, 118, 101>>, <<103, 111, 116>>,
      \* grow had happen has
      <<103, 114, 111, 119>>, <<104, 97, 100>>, <<104, 97, 112, 112, 101, 110>>, <<104, 97, 115>>,
      \* have hear here hold
      <<104, 97, 118, 101>>, <<104, 101, 97, 114>>, <<104, 101, 114, 101>>, <<104, 111, 108, 100>>,
      \* how in include into
      <<104, 111, 119>>, <<105, 110>>, <<105, 110, 99, 108, 117, 100, 101>>, <<105, 110, 116, 111>>,
      \* is it its just
      <<105, 115>>, <<105, 116>>, <<105, 116, 115>>, <<106, 117, 115, 116>>,
      \* keep kill know latest
      <<107, 101, 101, 112>>, <<107, 105, 108, 108>>, <<107, 110, 111, 119>>, <<108, 97, 116, 101, 115, 116>>,
      \* lead learn leave let
      <<108, 101, 97, 100>>, <<108, 101, 97, 114, 110>>, <<108, 101, 97, 118, 101>>, <<108, 101, 116>>,
      \* like live look lose
      <<108, 105, 107, 101>>, <<108, 105, 118, 101>>, <<108, 111, 111, 107>>, <<108, 111, 115, 101>>,
      \* love made make making
      <<108, 111, 118, 101>>, <<109, 97, 100, 101>>, <<109, 97, 107, 101>>, <<109, 97, 107, 105, 110, 103>>,
      \* may meet might more
      <<109, 97, 121>>, <<109, 101, 101, 116>>, <<109, 105, 103, 104, 116>>, <<109, 111, 114, 101>>,
      \* most move must need
      <<109, 111, 115, 116>>, <<109, 111, 118, 101>>, <<109, 117, 115, 116>>, <<110, 101, 101, 100>>,
      \* new news no not
      <<110, 101, 119>>, <<110, 101, 119, 115>>, <<110, 111>>, <<110, 111, 116>>,
      \* of off offer on
      <<111, 102>>, <<111, 102, 102>>, <<111, 102, 102, 101, 114>>, <<111, 110>>,
      \* once only open or
      <<111, 110, 99, 101>>, <<111, 110, 108, 121>>, <<111, 112, 101, 110>>, <<111, 114>>,
      \* other out over own
      <<111, 116, 104, 101, 114>>, <<111, 117, 116>>, <<111, 118, 101, 114>>, <<111, 119, 110>>,
      \* pass pay play provide
      <<112, 97, 115, 115>>, <<112, 97, 121>>, <<112, 108, 97, 121>>, <<112, 114, 111, 118, 105, 100, 101>>,
      \* pull raise reach read
      <<112, 117, 108, 108>>, <<114, 97, 105, 115, 101>>, <<114, 101, 97, 99, 104>>, <<114, 101, 97, 100>>,
      \* remain remember report require
      <<114, 101, 109, 97, 105, 110>>, <<114, 101, 109, 101, 109, 98, 101, 114>>, <<114, 101, 112, 111, 114, 116>>, <<114, 101, 113, 117, 105, 114, 101>>,
      \* run said same says
      <<114, 117, 110>>, <<115, 97, 105, 100>>, <<115, 97, 109, 101>>, <<115, 97, 121, 115>>,
      \* see seem sell send
      <<115, 101, 101>>, <<115, 101, 101, 109>>, <<115, 101, 108, 108>>, <<115, 101, 110, 100>>,
      \* serve set shall should
      <<115, 101, 114, 118, 101>>, <<115, 101, 116>>, <<115, 104, 97, 108, 108>>, <<115, 104, 111, 117, 108, 100>>,
      \* show sit so some
      <<115, 104, 111, 119>>, <<115, 105, 116>>, <<115, 111>>, <<115, 111, 109, 101>>,
      \* speak spend stand stay
      <<115, 112, 101, 97, 107>>, <<115, 112, 101, 110, 100>>, <<115, 116, 97, 110, 100>>, <<115, 116, 97, 121>>,
      \* stop such suggest take
      <<115, 116, 111, 112>>, <<115, 117, 99, 104>>, <<115, 117, 103, 103, 101, 115, 116>>, <<116, 97, 107, 101>>,
      \* tell than that the
      <<116, 101, 108, 108>>, <<116, 104, 97, 110>>, <<116, 104, 97, 116>>, <<116, 104, 101>>,
      \* them then there these
      <<116, 104, 101, 109>>, <<116, 104, 101, 110>>, <<116, 104, 101, 114, 101>>, <<116, 104, 101, 115, 101>>,
      \* they think this those
      <<116, 104, 101, 121>>, <<116, 104, 105, 110, 107>>, <<116, 104, 105, 115>>, <<116, 104, 111, 115, 101>>,
      \* through to today too
      <<116, 104, 114, 111, 117, 103, 104>>, <<116, 111>>, <<116, 111, 100, 97, 121>>, <<116, 111, 111>>,
      \* try under understand up
      <<116, 114, 121>>, <<117, 110, 100, 101, 114>>, <<117, 110, 100, 101, 114, 115, 116, 97, 110, 100>>, <<117, 112>>,
      \* update use very wait
      <<117, 112, 100, 97, 116, 101>>, <<117, 115, 101>>, <<118, 101, 114, 121>>, <<119, 97, 105, 116>>,
      \* walk want was watch
      <<119, 97, 108, 107>>, <<119, 97, 110, 116>>, <<119, 97, 115>>, <<119, 97, 116, 99, 104>>,
      \* were what when where
      <<119, 101, 114, 101>>, <<119, 104, 97, 116>>, <<119, 104, 101, 110>>, <<119, 104, 101, 114, 101>>,
      \* which who whom whose
      <<119, 104, 105, 99, 104>>, <<119, 104, 111>>, <<119, 104, 111, 109>>, <<119, 104, 111, 115, 101>>,
      \* why will win with
      <<119, 104, 121>>, <<119, 105, 108, 108>>, <<119, 105, 110>>, <<119, 105, 116, 104>>,
      \* work would write
      <<119, 111, 114, 107>>, <<119, 111, 117, 108, 100>>, <<119, 114, 105, 116, 101>> }

\* stop_words of TrendCollector._deduplicate
DedupStopWords ==
      \* a about after an
    { <<97>>, <<97, 98, 111, 117, 116>>, <<97, 102, 116, 101, 114>>, <<97, 110>>,
      \* and before for from
      <<97, 110, 100>>, <<98, 101, 102, 111, 114, 101>>, <<102, 111, 114>>, <<102, 114, 111, 109>>,
      \* in latest news of
      <<105, 110>>, <<108, 97, 116, 101, 115, 116>>, <<110, 101, 119, 115>>, <<111, 102>>,
      \* on or the to
      <<111, 110>>, <<111, 114>>, <<116, 104, 101>>, <<116, 111>>,
      \* today update with
      <<116, 111, 100, 97, 121>>, <<117, 112, 100, 97, 116, 101>>, <<119, 105, 116, 104>> }

----------------------------------------------------------------------------
(* Source registry: quality of a source *)

\* get_source_metadata(source).tier: exact keys first, then the prefix
\* rules ("news_" 1, "tech_" 2, "cmmc_" 2, "reddit_" 4), then the default
SourceTier(source) ==
    CASE source \in {"news_npr", "news_wapo"}                   -> 1
      [] source \in {KeyHn, "lobsters", "tech_verge",
                      "cmmc_breakingdefense"}                   -> 2
      [] source = "google_trends"                               -> 3
      [] OTHER                                                  -> 4

\* get_source_metadata(source).risk
SourceRisk(source) ==
    CASE source \in {"news_npr", "news_wapo", KeyHn, "lobsters", "tech_verge",
                     "cmmc_breakingdefense"} -> "low"
      [] OTHER                                -> "medium"

\* tier_boost, in hundredths
TierBoost(tier) ==
    CASE tier = 1 -> 130
      [] tier = 2 -> 118
      [] tier = 3 -> 105
      [] tier = 4 -> 95
      [] OTHER    -> 90

\* risk_adjustment, in hundredths
RiskAdjustment(risk) ==
    CASE risk = "low"    -> 100
      [] risk = "medium" -> 95
      [] risk = "high"   -> 88
      [] OTHER           -> 95

\* source_quality_multiplier, in ten-thousandths
SourceQualityMultiplier(source) ==
    TierBoost(SourceTier(source)) * RiskAdjustment(SourceRisk(source))

----------------------------------------------------------------------------
(* Trend *)

\* Trend._extract_keywords
ExtractKeywords(title) ==
    LET words == Split(PunctuationToSpace(Lower(title)))
        keywords == SelectWords(words,
                        {w \in Range(words) :
                            /\ w \notin KeywordStopWords
                            /\ Len(w) > 2
                            /\ ~IsDigitWord(w)})
    IN  Take(keywords, 5)

\* source_diversity as the length of the list instead of the number of
\* distinct entries
SourceDiversityByLength(corroborating_sources) ==
    Max({1, Len(corroborating_sources)})

\* max(1, len(set(self.corroborating_sources)))
SourceDiversity(corroborating_sources) ==
    Max({1, Cardinality(Range(corroborating_sources))})

\* `for x in items: if x and x not in target: target.append(x)`
RECURSIVE AppendMissing(_, _)
AppendMissing(target, items) ==
    IF items = <<>> THEN target
    ELSE IF Head(items) # "" /\ Head(items) \notin Range(target)
    THEN AppendMissing(Append(target, Head(items)), Tail(items))
    ELSE AppendMissing(target, Tail(items))

\* Trend(...) followed by Trend.__post_init__.  `a` holds the constructor's
\* arguments (timestamp 0 for an absent one, "" for None, <<>> for an
\* empty list) and t is datetime.now().  source_metadata, source_label and
\* category are display data and are left out.
PostInit(a, t) ==
    LET corroborating_sources ==
            IF a.corroborating_sources = <<>> THEN <<a.source>>
            ELSE IF a.source \notin Range(a.corroborating_sources)
            THEN Append(a.corroborating_sources, a.source)
            ELSE a.corroborating_sources
        corroborating_urls ==
            IF a.corroborating_urls = <<>>
            THEN (IF a.url # "" THEN <<a.url>> ELSE <<>>)
            ELSE IF a.url # "" /\ a.url \notin Range(a.corroborating_urls)
            THEN Append(a.corroborating_urls, a.url)
            ELSE a.corroborating_urls
    IN  [title |-> a.title,
         source |-> a.source,
         url |-> a.url,
         description |-> a.description,
         score |-> a.score,
         keywords |-> IF a.keywords = <<>> THEN ExtractKeywords(a.title) ELSE a.keywords,
         timestamp |-> IF a.timestamp = 0 THEN t ELSE a.timestamp,
         image_url |-> a.image_url,
         corroborating_sources |-> corroborating_sources,
         corroborating_urls |-> corroborating_urls,
         source_diversity |-> SourceDiversity(corroborating_sources)]

\* Trend.register_corroboration
RegisterCorroboration(self, other) ==
    LET other_sources == IF other.corroborating_sources # <<>>
                         THEN other.corroborating_sources ELSE <<other.source>>
        corroborating_sources == AppendMissing(self.corroborating_sources, other_sources)
        corroborating_urls == AppendMissing(self.corroborating_urls, other.corroborating_urls)
        description ==
            IF self.description = <<>> /\ other.description # <<>> THEN other.description
            ELSE IF other.description # <<>> /\ Len(other.description) > Len(self.description)
            THEN other.description
            ELSE self.description
    IN  [self EXCEPT
            !.corroborating_sources = corroborating_sources,
            !.corroborating_urls = corroborating_urls,
            !.description = description,
            !.image_url = IF self.image_url = "" /\ other.image_url # ""
                          THEN other.image_url ELSE self.image_url,
            !.timestamp = IF other.timestamp # 0 /\ other.timestamp > self.timestamp
                          THEN other.timestamp ELSE self.timestamp,
            !.source_diversity = SourceDiversity(corroborating_sources)]

----------------------------------------------------------------------------
(* Scores *)

\* A score is an exact number of units of 1/ScoreUnit; ScoreUnit is the
\* product of the denominators of the factors the scorer applies (tenths,
\* twentieths, ten-thousandths, hundredths), so every product below is
\* exact for the base scores the collectors assign.
ScoreUnit == 10 * 20 * 10000 * 100

ScoreOfTenths(tenths) == tenths * (ScoreUnit \div 10)

----------------------------------------------------------------------------
(* TrendCollector._deduplicate *)

\* normalized: lower case, punctuation to spaces, whitespace collapsed, stripped
NormalizedTitle(title) == Join(Split(PunctuationToSpace(Lower(title))))

\* tokens: the words of at least 3 characters that are no number and no
\* stop word; all the words when none is left
TitleTokens(title) ==
    LET words == Split(NormalizedTitle(title))
        tokens == {w \in Range(words) :
                      Len(w) >= 3 /\ ~IsDigitWord(w) /\ w \notin DedupStopWords}
    IN  IF tokens = {} THEN Range(words) ELSE tokens

\* the order of Python strings
LexLess(a, b) ==
    \E i \in 1..(Len(a) + 1) :
        /\ \A j \in 1..(i - 1) : j <= Len(b) /\ a[j] = b[j]
        /\ \/ i > Len(a) /\ i <= Len(b)
           \/ i <= Len(a) /\ i <= Len(b) /\ a[i] < b[i]

\* sorted(tokens)
RECURSIVE SortedWords(_)
SortedWords(S) ==
    IF S = {} THEN <<>>
    ELSE LET m == CHOOSE x \in S : \A y \in S \ {x} : LexLess(x, y)
         IN  <<m>> \o SortedWords(S \ {m})

\* sum of the sizes of SequenceMatcher.get_matching_blocks() within
\* a[alo..ahi] and b[blo..bhi]: the longest common block, the earliest in a
\* and then in b among the longest, and recursively the blocks to its left
\* and to its right (no junk: both strings are shorter than 200)
RECURSIVE MatchingSize(_, _, _, _, _, _)
MatchingSize(a, b, alo, ahi, blo, bhi) ==
    LET Same(i, j, k) == \A d \in 0..(k - 1) : a[i + d] = b[j + d]
        sizes == {k \in 1..Min({ahi - alo + 1, bhi - blo + 1}) :
                     \E i \in alo..(ahi - k + 1) : \E j \in blo..(bhi - k + 1) : Same(i, j, k)}
    IN  IF alo > ahi \/ blo > bhi \/ sizes = {} THEN 0
        ELSE LET k == Max(sizes)
                 i == Min({x \in alo..(ahi - k + 1) :
                              \E j \in blo..(bhi - k + 1) : Same(x, j, k)})
                 j == Min({y \in blo..(bhi - k + 1) : Same(i, y, k)})
             IN  k + MatchingSize(a, b, alo, i - 1, blo, j - 1)
                   + MatchingSize(a, b, i + k, ahi, j + k, bhi)

\* SequenceMatcher(None, a, b).ratio() >= percent / 100
RatioAtLeast(a, b, percent) ==
    LET length == Len(a) + Len(b)
    IN  IF length = 0 THEN 100 >= percent
        ELSE 200 * MatchingSize(a, b, 1, Len(a), 1, Len(b)) >= percent * length

\* is_duplicate of a seed title and a candidate title; cfg holds
\* DEDUP_SIMILARITY_THRESHOLD and DEDUP_SEMANTIC_THRESHOLD in hundredths
IsDuplicate(title_i, title_j, cfg) ==
    LET tokens_i == TitleTokens(title_i)
        tokens_j == TitleTokens(title_j)
        empty == tokens_i = {} \/ tokens_j = {}
        intersection == IF empty THEN 0 ELSE Cardinality(tokens_i \cap tokens_j)
        smaller == IF empty THEN 1
                   ELSE Max({1, Min({Cardinality(tokens_i), Cardinality(tokens_j)})})
        union == IF empty THEN 1 ELSE Max({1, Cardinality(tokens_i \cup tokens_j)})
    IN  \/ 100 * intersection >= cfg.DEDUP_SIMILARITY_THRESHOLD * smaller
        \/ 100 * intersection >= Max({55, cfg.DEDUP_SIMILARITY_THRESHOLD - 25}) * union
        \/ RatioAtLeast(NormalizedTitle(title_i), NormalizedTitle(title_j),
                        cfg.DEDUP_SEMANTIC_THRESHOLD)
        \/ RatioAtLeast(Join(SortedWords(tokens_i)), Join(SortedWords(tokens_j)),
                        cfg.DEDUP_SEMANTIC_THRESHOLD)

\* the elements of a set of numbers in increasing order
RECURSIVE Ascending(_)
Ascending(S) == IF S = {} THEN <<>> ELSE <<Min(S)>> \o Ascending(S \ {Min(S)})

\* clusters that take no record but the one that follows the seed
RECURSIVE ClustersAdjacent(_, _, _, _)
ClustersAdjacent(list, cfg, index, assigned) ==
    IF index > Len(list) THEN <<>>
    ELSE IF index \in assigned THEN ClustersAdjacent(list, cfg, index + 1, assigned)
    ELSE LET members == {j \in {index + 1} \cap (1..Len(list)) :
                            /\ j \notin assigned
                            /\ TitleTokens(list[index].title) \cap TitleTokens(list[j].title) # {}
                            /\ IsDuplicate(list[index].title, list[j].title, cfg)}
         IN  <<(<<index>> \o Ascending(members))>>
               \o ClustersAdjacent(list, cfg, index + 1, assigned \cup {index} \cup members)

\* clusters that also take a record that duplicates a member of the cluster
RECURSIVE ClustersThroughMembers(_, _, _, _)
ClustersThroughMembers(list, cfg, index, assigned) ==
    IF index > Len(list) THEN <<>>
    ELSE IF index \in assigned THEN ClustersThroughMembers(list, cfg, index + 1, assigned)
    ELSE LET Dup(i, j) ==
                 /\ TitleTokens(list[i].title) \cap TitleTokens(list[j].title) # {}
                 /\ IsDuplicate(list[i].title, list[j].title, cfg)
             direct == {j \in (index + 1)..Len(list) : j \notin assigned /\ Dup(index, j)}
             members == direct \cup
                        {j \in (index + 1)..Len(list) :
                            j \notin assigned /\ \E m \in direct : m # j /\ Dup(m, j)}
         IN  <<(<<index>> \o Ascending(members))>>
               \o ClustersThroughMembers(list, cfg, index + 1,
                                         assigned \cup {index} \cup members)

\* the clusters, seeds in input order: a cluster is its seed and the later
\* unassigned records that share a token with the seed and duplicate it
RECURSIVE Clusters(_, _, _, _)
Clusters(list, cfg, index, assigned) ==
    IF index > Len(list) THEN <<>>
    ELSE IF index \in assigned THEN Clusters(list, cfg, index + 1, assigned)
    ELSE LET tokens_i == TitleTokens(list[index].title)
             members == {j \in (index + 1)..Len(list) :
                            /\ j \notin assigned
                            /\ tokens_i \cap TitleTokens(list[j].title) # {}
                            /\ IsDuplicate(list[index].title, list[j].title, cfg)}
         IN  <<(<<index>> \o Ascending(members))>>
               \o Clusters(list, cfg, index + 1, assigned \cup {index} \cup members)

\* _quality: (score * multiplier * diversity factor, timestamp)
Quality(candidate) ==
    LET weighted == (candidate.score \div 10000) * SourceQualityMultiplier(candidate.source)
    IN  [quality |-> (weighted \div 100)
                        * (100 + Min({(candidate.source_diversity - 1) * 5, 25})),
         timestamp |-> candidate.timestamp]

\* the tuples of _quality compared by their first component alone
QualityLessByScore(p, q) == p.quality < q.quality

\* the order of the tuples _quality returns
QualityLess(p, q) ==
    \/ p.quality < q.quality
    \/ p.quality = q.quality /\ p.timestamp < q.timestamp

\* the seed of the cluster as its canonical record
CanonicalIdxSeed(list, cluster) == cluster[1]

\* max(cluster, key=_quality): the first member no other member exceeds
CanonicalIdx(list, cluster) ==
    LET Q(k) == Quality(list[cluster[k]])
        p == CHOOSE k \in 1..Len(cluster) :
                 /\ \A m \in 1..Len(cluster) : ~QualityLess(Q(k), Q(m))
                 /\ \A m \in 1..(k - 1) : QualityLess(Q(m), Q(k))
    IN  cluster[p]

\* the canonical record as it is, nothing merged into it
MergeClusterDropped(canonical, canonical_idx, list, cluster) == canonical

\* register_corroboration of the other members, in the cluster's order
RECURSIVE MergeCluster(_, _, _, _)
MergeCluster(canonical, canonical_idx, list, cluster) ==
    IF cluster = <<>> THEN canonical
    ELSE IF Head(cluster) = canonical_idx
    THEN MergeCluster(canonical, canonical_idx, list, Tail(cluster))
    ELSE MergeCluster(RegisterCorroboration(canonical, list[Head(cluster)]),
                      canonical_idx, list, Tail(cluster))

Deduplicate(list, cfg) ==
    LET clusters == Clusters(list, cfg, 1, {})
    IN  [k \in 1..Len(clusters) |->
            IF Len(clusters[k]) = 1 THEN list[clusters[k][1]]
            ELSE LET canonical_idx == CanonicalIdx(list, clusters[k])
                 IN  MergeCluster(list[canonical_idx], canonical_idx, list, clusters[k])]

----------------------------------------------------------------------------
(* TrendCollector._calculate_scores *)

\* story_word_counts[word]: the number of records that have the keyword
\* every occurrence counted, a record that repeats the word counting twice
RECURSIVE StoryWordOccurrences(_, _)
StoryWordOccurrences(list, word) ==
    IF list = <<>> THEN 0
    ELSE Len(SelectWords(Head(list).keywords, {word}))
           + StoryWordOccurrences(Tail(list), word)

StoryWordCount(list, word) ==
    Cardinality({i \in 1..Len(list) : word \in Range(list[i].keywords)})

GlobalKeywords(list) ==
    {w \in UNION {Range(list[i].keywords) : i \in 1..Len(list)} :
        StoryWordCount(list, w) >= 3}

\* 0.08 for every further source, without the cap
DiversityBoostUncapped(source_diversity) ==
    100 + (source_diversity - 1) * 8

\* diversity_boost in hundredths: 1.0 + min((source_diversity - 1) * 0.08, 0.35)
DiversityBoost(source_diversity) ==
    100 + Min({(source_diversity - 1) * 8, 35})

\* a scorer that adds the keyword boost after the source multiplier
ScoreTrendBoostLast(trend, list) ==
    LET matches == Len(SelectWords(trend.keywords, GlobalKeywords(list)))
        boosted == IF matches >= 3 THEN (trend.score \div 20) * 32
                   ELSE IF matches = 2 THEN (trend.score \div 20) * 27
                   ELSE IF matches = 1 THEN (trend.score \div 20) * 23
                   ELSE trend.score
        repeated == {w \in Range(trend.keywords) : StoryWordCount(list, w) > 1}
        keyword_boost == Len(SelectWords(trend.keywords, repeated)) * (ScoreUnit \div 10)
        calibrated == (boosted \div 10000) * SourceQualityMultiplier(trend.source)
                          + keyword_boost
    IN  IF trend.source_diversity > 1
        THEN (calibrated \div 100) * DiversityBoost(trend.source_diversity)
        ELSE calibrated

\* the score _calculate_scores leaves on a record of the list
ScoreTrend(trend, list) ==
    LET matches == Len(SelectWords(trend.keywords, GlobalKeywords(list)))
        boosted == IF matches >= 3 THEN (trend.score \div 20) * 32
                   ELSE IF matches = 2 THEN (trend.score \div 20) * 27
                   ELSE IF matches = 1 THEN (trend.score \div 20) * 23
                   ELSE trend.score
        repeated == {w \in Range(trend.keywords) : StoryWordCount(list, w) > 1}
        keyword_boost == Len(SelectWords(trend.keywords, repeated)) * (ScoreUnit \div 10)
        calibrated == ((boosted + keyword_boost) \div 10000)
                          * SourceQualityMultiplier(trend.source)
    IN  IF trend.source_diversity > 1
        THEN (calibrated \div 100) * DiversityBoost(trend.source_diversity)
        ELSE calibrated

CalculateScores(list) ==
    [i \in 1..Len(list) |-> [list[i] EXCEPT !.score = ScoreTrend(list[i], list)]]

\* list.sort(key=lambda t: t.score, reverse=True): stable, so records of
\* equal score keep their order
RECURSIVE SortByScore(_)
SortByScore(list) ==
    IF list = <<>> THEN <<>>
    ELSE LET best == Min({i \in 1..Len(list) :
                             \A j \in 1..Len(list) : list[j].score <= list[i].score})
         IN  <<list[best]>>
               \o SortByScore([k \in 1..(Len(list) - 1) |->
                                  IF k < best THEN list[k] ELSE list[k + 1]])

----------------------------------------------------------------------------
(* TrendCollector.collect_all: the collectors and what their feeds hold *)

UrlNpr == "https://feeds.npr.org/1001/rss.xml"
UrlLobsters == "https://lobste.rs/rss"
UrlWapoFallback == "https://news.google.com/rss/search?q=site:washingtonpost.com+when:2d&hl=en-US&gl=US&ceid=US:en"
UrlVerge == "https://www.theverge.com/rss/index.xml"

LinkNpr == "https://npr.test/mars"
LinkLobsters == "https://lobste.rs/s/mars"
ImageLobsters == "https://lobste.rs/mars.png"

TitleRoverNpr ==
    <<77, 97, 114, 115, 32, 114, 111, 118, 101, 114, 32, 108, 97, 110, 100, 115>>    \* "Mars rover lands"
TitleBase ==
    <<77, 97, 114, 115, 32, 98, 97, 115, 101, 32, 112, 108, 97, 110>>    \* "Mars base plan"
TitleRoverLobsters ==
    <<77, 97, 114, 115, 32, 82, 111, 118, 101, 114, 32, 76, 97, 110, 100, 115, 33>>    \* "Mars Rover Lands!"
TitleProbe ==
    <<78, 101, 119, 32, 77, 97, 114, 115, 32, 112, 114, 111, 98, 101>>    \* "New Mars probe"
TitleChips ==
    <<67, 104, 105, 112, 32, 101, 120, 112, 111, 114, 116, 32, 114, 117, 108, 101, 115>>    \* "Chip export rules"
SummaryShort ==
    <<82, 111, 118, 101, 114>>    \* "Rover"
SummaryLong ==
    <<82, 111, 118, 101, 114, 32, 111, 110, 32, 77, 97, 114, 115>>    \* "Rover on Mars"

\* SourceSpec records of the catalog: key (also the Trend.source key), url
\* and fallback_url
SourceNpr == [key |-> "news_npr", url |-> UrlNpr, fallback_url |-> ""]
SourceWapo == [key |-> "news_wapo", url |-> UrlWapo, fallback_url |-> UrlWapoFallback]
SourceLobsters == [key |-> "lobsters", url |-> UrlLobsters, fallback_url |-> ""]
SourceVerge == [key |-> "tech_verge", url |-> UrlVerge, fallback_url |-> ""]

\* Three of the 18 collectors collect_all runs, with the sources
\* get_collector_sources gives them and the base score they assign
CollectorSpecs ==
    << [name |-> "News RSS Feeds", sources |-> <<SourceNpr, SourceWapo>>, score |-> 18],
       [name |-> "Tech RSS Feeds", sources |-> <<SourceVerge>>, score |-> 15],
       [name |-> "Lobsters", sources |-> <<SourceLobsters>>, score |-> 16] >>

NumCollectors == Len(CollectorSpecs)

\* The entries feedparser finds in the feed of a source, each one passing
\* the collector's title filter: title, link, summary, the timestamp of
\* parse_feed_entry_timestamp (0 for none) and the image of the entry.
FeedEntries(key) ==
    CASE key = "news_npr" ->
            << [title |-> TitleRoverNpr, link |-> LinkNpr, summary |-> SummaryShort,
                timestamp |-> StartTime - 3600, image |-> ""],
               [title |-> TitleBase, link |-> "", summary |-> <<>>,
                timestamp |-> 0, image |-> ""] >>
      [] key = "news_wapo" ->
            << [title |-> TitleRoverNpr, link |-> "", summary |-> <<>>,
                timestamp |-> StartTime - 600, image |-> ""] >>
      [] key = "lobsters" ->
            << [title |-> TitleRoverLobsters, link |-> LinkLobsters, summary |-> SummaryLong,
                timestamp |-> StartTime - 1800, image |-> ImageLobsters] >>
      [] key = "tech_verge" ->
            << [title |-> TitleProbe, link |-> "", summary |-> <<>>,
                timestamp |-> 0, image |-> ""],
               [title |-> TitleChips, link |-> "", summary |-> <<>>,
                timestamp |-> StartTime - 60, image |-> ""] >>
      [] OTHER -> <<>>

\* the Trend a collector makes of a feed entry
EntryTrend(entry, source, score, t) ==
    PostInit([title |-> entry.title, source |-> source.key, url |-> entry.link,
              description |-> entry.summary, score |-> ScoreOfTenths(score),
              keywords |-> <<>>, timestamp |-> entry.timestamp,
              image_url |-> entry.image,
              corroborating_sources |-> <<>>, corroborating_urls |-> <<>>], t)

\* what the network does for the requests of one source: every request
\* raises, or every request returns a feed
CollectScripts(source) ==
    LET call == [url |-> source.url, source_key |-> source.key,
                 fallback_url |-> source.fallback_url]
    IN  { [i \in 1..RequestBudget(call) |-> o] : o \in {NetRaise, NetFeedA} }

\* what happens to the sources of a collector: a script for the requests
\* and whether processing the entries raises after the first entry
SourceInputs(collector) ==
    LET n == Len(collector.sources)
        all == UNION { {[net |-> s, fault |-> f] : s \in CollectScripts(collector.sources[k]),
                                                    f \in BOOLEAN} : k \in 1..n }
    IN  {inputs \in [1..n -> all] :
            \A k \in 1..n : inputs[k].net \in CollectScripts(collector.sources[k])}

\* One pass of the loop body of a collector (_collect_news_rss, _collect_tech_rss)
\* or the body of a single-feed collector (_collect_lobsters): fetch the
\* feed, turn its entries into Trends; an exception, from the fetch or from
\* the entries, is caught and ends the work on this source, keeping the
\* Trends already appended.
CollectSource(c, t, collector, source, input) ==
    LET r == FetchRss(c, t, source.url, source.key, source.fallback_url, TRUE, input.net)
        entries == FeedEntries(source.key)
        done == IF input.fault THEN Take(entries, 1) ELSE entries
    IN  [c |-> r.c,
         trends |-> IF r.result.kind = "response"
                    THEN [i \in 1..Len(done) |-> EntryTrend(done[i], source, collector.score, t)]
                    ELSE <<>>]

\* a collector: its sources from the k-th on, in order
RECURSIVE CollectSources(_, _, _, _, _)
CollectSources(c, t, collector, k, inputs) ==
    IF k > Len(collector.sources) THEN [c |-> c, trends |-> <<>>]
    ELSE LET one == CollectSource(c, t, collector, collector.sources[k], inputs[k])
             rest == CollectSources(one.c, t, collector, k + 1, inputs)
         IN  [c |-> rest.c, trends |-> one.trends \o rest.trends]

\* the loop of collect_all stops at the first collector that raises
AfterCollectorAbort(i, raised) == IF raised THEN NumCollectors + 1 ELSE i + 1

\* the collector collect_all turns to after collector i returned or raised
\* (`continue` in the except clause)
AfterCollector(i, raised) == i + 1

\* _scrape_og_image for the top 50 records that have a url and no image;
\* `found` is the set of urls whose page has an og:image
ScrapeOgImages(list, found) ==
    [i \in 1..Len(list) |->
        IF i <= Min({50, Len(list)}) /\ list[i].url # "" /\ list[i].image_url = ""
        THEN [list[i] EXCEPT !.image_url = IF list[i].url \in found
                                             THEN "https://img.test/og.png" ELSE ""]
        ELSE list[i]]

\* _flush_persistent_feed_cache: the new value of _persistent_cache_dirty
FlushPersistentFeedCache(dirty, write_ok) ==
    IF ~dirty THEN dirty ELSE IF write_ok THEN FALSE ELSE dirty

\* a file json.dump did not finish
CutShort == [form |-> "cut_short"]

\* _flush_persistent_feed_cache that writes whether or not the tier is dirty
WriteCacheFileAlways(writes, persistent, dirty, write_ok, opened) ==
    IF write_ok THEN Append(writes, persistent)
    ELSE IF opened THEN Append(writes, CutShort)
    ELSE writes

\* _flush_persistent_feed_cache: the documents written to the file after the
\* call.  A write that fails leaves the file as it was (mkdir or open
\* raised) or cut short (json.dump raised after open(..., "w") emptied it).
WriteCacheFile(writes, persistent, dirty, write_ok, opened) ==
    IF ~dirty THEN writes
    ELSE IF write_ok THEN Append(writes, persistent)
    ELSE IF opened THEN Append(writes, CutShort)
    ELSE writes

\* values of DEDUP_SIMILARITY_THRESHOLD and DEDUP_SEMANTIC_THRESHOLD, in
\* hundredths
DedupConfigs ==
    { [DEDUP_SIMILARITY_THRESHOLD |-> s, DEDUP_SEMANTIC_THRESHOLD |-> m]
        : s \in {60, 80}, m \in {70, 90} }

DefaultConfig == [DEDUP_SIMILARITY_THRESHOLD |-> 80, DEDUP_SEMANTIC_THRESHOLD |-> 70]

\* arguments of Trend(...) the model constructs records from
TrendArguments(source, url, description, timestamp, image_url, corroborating_sources) ==
    [title |-> TitleRoverNpr, source |-> source, url |-> url,
     description |-> description, score |-> ScoreOfTenths(10), keywords |-> <<>>,
     timestamp |-> timestamp, image_url |-> image_url,
     corroborating_sources |-> corroborating_sources, corroborating_urls |-> <<>>]

TrendArgs ==
    { TrendArguments("news_npr", LinkNpr, <<>>, 0, "", <<>>),
      TrendArguments("lobsters", "", SummaryShort, StartTime - 3600, ImageLobsters, <<>>),
      TrendArguments("reddit_science", LinkLobsters, SummaryLong, 0, "", <<"news_npr">>),
      TrendArguments("news_npr", "", <<>>, 0, "", <<"lobsters", "lobsters">>),
      TrendArguments("lobsters", "", <<>>, 0, "", <<"", "lobsters">>),
      TrendArguments("", "", <<>>, 0, "", <<>>) }

----------------------------------------------------------------------------
(* The collector as a state machine *)

Collector ==
    [feed_failures |-> feed_failures, feed_cache |-> feed_cache,
     persistent_feed_cache |-> persistent_feed_cache, dirty |-> persistent_cache_dirty]

NoCall ==
    [url |-> "", source_key |-> "", fallback_url |-> "", net |-> <<>>,
     scope |-> "", at |-> 0,
     pre |-> [feed_failures |-> EmptyDict, feed_cache |-> EmptyDict,
              persistent_feed_cache |-> EmptyDict, dirty |-> FALSE],
     result |-> FetchNone, reqs |-> <<>>]

NoSourceFetch == [source |-> "", timeout |-> 0, requests |-> <<>>]

\* no Trend has been constructed
NoRecords ==
    /\ records = <<>>
    /\ last_op = "none"

\* collect_all has not been called
NoRun ==
    /\ pc = 0
    /\ trends = <<>>
    /\ pre_dedup_count = 0
    /\ tier_at_start = EmptyDict
    /\ global_keywords = {}
    /\ outputs = <<>>
    /\ config = DefaultConfig

\* no list has been loaded into a collector for ranking
NoBatch ==
    /\ given = <<>>
    /\ other_trends = <<>>
    /\ trends_before = <<>>
    /\ ops = <<>>

\* _fetch_source_feed has not been called; TIMEOUTS holds the defaults of
\* __init__
\* _collect_hackernews was not called
NoStories ==
    /\ hn_pc = "idle"
    /\ limit = 0
    /\ story_ids = <<>>
    /\ submitted = {}
    /\ fetching = {}
    /\ completed = EmptyDict
    /\ fetched = <<>>
    /\ hn_trends = <<>>

NoSourceCall ==
    /\ default_timeout = 15
    /\ feed_timeout = 15
    /\ source_call = NoSourceFetch

\* run_health_check has not been called
NoSweep ==
    /\ workers = 0
    /\ waiting = {}
    /\ running = {}
    /\ finished = EmptyDict
    /\ results = <<>>
    /\ report = EmptyDict

\* TrendCollector.__init__: empty state, then _load_persistent_feed_cache
\* reads whatever the cache file of an earlier run holds
Init ==
    /\ now = StartTime
    /\ ticks = 0
    /\ calls = 0
    /\ feed_failures = EmptyDict
    /\ feed_cache = EmptyDict
    /\ \/ persistent_feed_cache = EmptyDict
       \/ \E e \in LoadedEntries :
              persistent_feed_cache = Put(EmptyDict, KeyHn, e)
    /\ persistent_cache_dirty = FALSE
    /\ file_writes = <<>>
    /\ last = NoCall
    /\ NoRecords
    /\ NoRun
    /\ NoBatch
    /\ NoSweep
    /\ NoSourceCall
    /\ NoStories

\* time passes between two calls
Tick ==
    /\ ticks < MaxTicks
    /\ last = NoCall
    /\ \E d \in ClockSteps : now' = now + d
    /\ ticks' = ticks + 1
    /\ UNCHANGED <<calls, feed_failures, feed_cache, persistent_feed_cache,
                   persistent_cache_dirty, file_writes, last>>
    /\ UNCHANGED <<trendVars, runVars, rankVars, healthVars, sourceVars, hnVars>>

\* One call of _fetch_rss(url, source_key=..., fallback_url=...).  `last`
\* keeps the arguments, the clock and the collector's state at the call, and
\* what the call returned and requested.
Fetch ==
    /\ calls < MaxCalls
    /\ last = NoCall
    /\ \E call \in FetchCalls :
       \E net \in NetScripts(RequestBudget(call)) :
         \E r \in {FetchRss(Collector, now, call.url, call.source_key,
                            call.fallback_url, TRUE, net)} :
             /\ feed_failures' = r.c.feed_failures
             /\ feed_cache' = r.c.feed_cache
             /\ persistent_feed_cache' = r.c.persistent_feed_cache
             /\ persistent_cache_dirty' = r.c.dirty
             /\ last' = [url |-> call.url, source_key |-> call.source_key,
                         fallback_url |-> call.fallback_url, net |-> net,
                         scope |-> FeedScope(call.source_key, call.url), at |-> now,
                         pre |-> Collector,
                         result |-> r.result, reqs |-> r.reqs]
    /\ calls' = calls + 1
    /\ UNCHANGED <<now, ticks, file_writes>>
    /\ UNCHANGED <<trendVars, runVars, rankVars, healthVars, sourceVars, hnVars>>

\* the caller takes the result of the call
Return ==
    /\ last # NoCall
    /\ last' = NoCall
    /\ UNCHANGED <<now, ticks, calls, feed_failures, feed_cache,
                   persistent_feed_cache, persistent_cache_dirty,
                   file_writes>>
    /\ UNCHANGED <<trendVars, runVars, rankVars, healthVars, sourceVars, hnVars>>

Next == Tick \/ Fetch \/ Return

Spec == Init /\ [][Next]_vars

----------------------------------------------------------------------------
(* Trend records: construction and corroboration *)

InitTrend ==
    /\ now = StartTime
    /\ ticks = 0
    /\ calls = 0
    /\ feed_failures = EmptyDict
    /\ feed_cache = EmptyDict
    /\ persistent_feed_cache = EmptyDict
    /\ persistent_cache_dirty = FALSE
    /\ file_writes = <<>>
    /\ last = NoCall
    /\ NoRecords
    /\ NoRun
    /\ NoBatch
    /\ NoSweep
    /\ NoSourceCall
    /\ NoStories

\* Trend(...): a new record
Construct ==
    /\ Len(records) < MaxRecords
    /\ \E a \in TrendArgs : records' = Append(records, PostInit(a, now))
    /\ last_op' = "construct"
    /\ UNCHANGED <<fetchVars, runVars, rankVars, healthVars, sourceVars, hnVars>>

\* records[i].register_corroboration(records[j])
Register ==
    /\ \E i, j \in 1..Len(records) :
           records' = [records EXCEPT ![i] = RegisterCorroboration(records[i], records[j])]
    /\ last_op' = "register"
    /\ UNCHANGED <<fetchVars, runVars, rankVars, healthVars, sourceVars, hnVars>>

NextTrend == Construct \/ Register

SpecTrend == InitTrend /\ [][NextTrend]_vars

----------------------------------------------------------------------------
(* collect_all as a state machine *)

\* pc is the position of collect_all: the index of the collector it is about
\* to run, LoopDone after the last one, Returned after the return
LoopDone == NumCollectors + 1
Returned == NumCollectors + 2

InitCollect ==
    /\ now = StartTime
    /\ ticks = 0
    /\ calls = 0
    /\ feed_failures = EmptyDict
    /\ feed_cache = EmptyDict
    /\ \/ persistent_feed_cache = EmptyDict
       \/ \E e \in LoadedEntries :
              /\ e.form \in {"ok", "bad_timestamp"}
              /\ persistent_feed_cache = Put(EmptyDict, "lobsters", e)
    /\ persistent_cache_dirty = FALSE
    /\ file_writes = <<>>
    /\ last = NoCall
    /\ NoRecords
    /\ pc = 1
    /\ trends = <<>>
    /\ pre_dedup_count = 0
    /\ tier_at_start = persistent_feed_cache
    /\ global_keywords = {}
    /\ outputs = <<>>
    /\ config \in DedupConfigs
    /\ NoBatch
    /\ NoSweep
    /\ NoSourceCall
    /\ NoStories

\* `trends = collector(); self.trends.extend(trends)`: the collector returns
CollectorReturns ==
    /\ pc \in 1..NumCollectors
    /\ \E inputs \in SourceInputs(CollectorSpecs[pc]) :
       \E r \in {CollectSources(Collector, now, CollectorSpecs[pc], 1, inputs)} :
           /\ feed_failures' = r.c.feed_failures
           /\ feed_cache' = r.c.feed_cache
           /\ persistent_feed_cache' = r.c.persistent_feed_cache
           /\ persistent_cache_dirty' = r.c.dirty
           /\ trends' = trends \o r.trends
           /\ outputs' = Append(outputs, [raised |-> FALSE, trends |-> r.trends])
    /\ pc' = AfterCollector(pc, FALSE)
    /\ UNCHANGED <<now, ticks, calls, file_writes, last, trendVars,
                   pre_dedup_count, tier_at_start, global_keywords, config, rankVars,
                   healthVars, sourceVars, hnVars>>

\* the collector raises before it returns: `except Exception ... continue`
CollectorRaises ==
    /\ pc \in 1..NumCollectors
    /\ outputs' = Append(outputs, [raised |-> TRUE, trends |-> <<>>])
    /\ pc' = AfterCollector(pc, TRUE)
    /\ UNCHANGED <<fetchVars, trendVars, trends,
                   pre_dedup_count, tier_at_start, global_keywords, config, rankVars,
                   healthVars, sourceVars, hnVars>>

\* after the loop: _deduplicate, _calculate_scores, sort, og:image scraping,
\* _flush_persistent_feed_cache, return self.trends
Finish ==
    /\ pc = LoopDone
    /\ pre_dedup_count' = Len(trends)
    /\ \E unique \in {Deduplicate(trends, config)} :
           /\ global_keywords' = GlobalKeywords(unique)
           /\ \E found \in SUBSET {LinkNpr, LinkLobsters} :
                  trends' = ScrapeOgImages(SortByScore(CalculateScores(unique)), found)
    /\ \E write_ok, opened \in BOOLEAN :
           /\ persistent_cache_dirty' =
                  FlushPersistentFeedCache(persistent_cache_dirty, write_ok)
           /\ file_writes' = WriteCacheFile(file_writes, persistent_feed_cache,
                                            persistent_cache_dirty, write_ok, opened)
    /\ pc' = Returned
    /\ UNCHANGED <<now, ticks, calls, feed_failures, feed_cache,
                   persistent_feed_cache, last, trendVars, tier_at_start, outputs, config,
                   rankVars, healthVars, sourceVars, hnVars>>

NextCollect == CollectorReturns \/ CollectorRaises \/ Finish

SpecCollect == InitCollect /\ [][NextCollect]_vars

----------------------------------------------------------------------------
(* Ranking: _deduplicate, _calculate_scores and the sort of collect_all,   *)
(* run on lists of Trends                                                  *)

TitleRoverCrater ==
    <<77, 97, 114, 115, 32, 114, 111, 118, 101, 114, 32, 108, 97, 110, 100, 115, 32, 74, 101, 122, 101, 114, 111, 32, 99, 114, 97, 116, 101, 114>>    \* "Mars rover lands Jezero crater"
TitleCrater ==
    <<74, 101, 122, 101, 114, 111, 32, 99, 114, 97, 116, 101, 114>>    \* "Jezero crater"
TitleRoverTwice ==
    <<77, 97, 114, 115, 32, 114, 111, 118, 101, 114, 44, 32, 77, 97, 114, 115, 32, 108, 97, 110, 100, 115>>    \* "Mars rover, Mars lands"

\* Trend(title=..., source=..., score=..., timestamp=...) as the collectors
\* construct it
BatchTrend(title, source, score, timestamp) ==
    PostInit([title |-> title, source |-> source, url |-> "",
              description |-> <<>>, score |-> ScoreOfTenths(score),
              keywords |-> <<>>, timestamp |-> timestamp, image_url |-> "",
              corroborating_sources |-> <<>>, corroborating_urls |-> <<>>], StartTime)

\* The Trends the lists are made of.  The first, the second and the fourth
\* duplicate each other, the second duplicates the third, and the third
\* shares no word with the first and the fourth; the last two have the
\* same source and base score.
BatchPool ==
    { BatchTrend(a.title, a.source, a.score, a.timestamp) :
        a \in { [title |-> TitleRoverNpr, source |-> "news_npr",
                 score |-> 15, timestamp |-> StartTime - 3600],
                [title |-> TitleRoverCrater, source |-> "lobsters",
                 score |-> 20, timestamp |-> StartTime - 1800],
                [title |-> TitleCrater, source |-> "reddit_science",
                 score |-> 20, timestamp |-> StartTime - 600],
                [title |-> TitleRoverTwice, source |-> "reddit_science",
                 score |-> 20, timestamp |-> StartTime - 900] } }

\* the lists a collector is loaded with: up to MaxBatch different Trends
Batches ==
    UNION { {b \in [1..n -> BatchPool] : \A i, j \in 1..n : i # j => b[i] # b[j]}
              : n \in 1..MaxBatch }

\* the same records in every order
Orderings(list) ==
    LET n == Len(list)
    IN  { [i \in 1..n |-> list[p[i]]]
            : p \in {q \in [1..n -> 1..n] : \A i, j \in 1..n : i # j => q[i] # q[j]} }

\* two collectors hold the same Trends, the second one in any order
InitRank ==
    /\ now = StartTime
    /\ ticks = 0
    /\ calls = 0
    /\ feed_failures = EmptyDict
    /\ feed_cache = EmptyDict
    /\ persistent_feed_cache = EmptyDict
    /\ persistent_cache_dirty = FALSE
    /\ file_writes = <<>>
    /\ last = NoCall
    /\ NoRecords
    /\ pc = 0
    /\ pre_dedup_count = 0
    /\ tier_at_start = EmptyDict
    /\ global_keywords = {}
    /\ outputs = <<>>
    /\ config \in DedupConfigs
    /\ given \in Batches
    /\ trends = given
    /\ other_trends \in Orderings(given)
    /\ trends_before = <<>>
    /\ ops = <<>>
    /\ NoSweep
    /\ NoSourceCall
    /\ NoStories

\* collector._deduplicate(), on both collectors
RunDeduplicate ==
    /\ ops \in {<<>>, <<"dedup">>}
    /\ trends_before' = trends
    /\ \E r \in {[k \in 1..2 |-> Deduplicate(<<trends, other_trends>>[k], config)]} :
           /\ trends' = r[1]
           /\ other_trends' = r[2]
    /\ ops' = Append(ops, "dedup")
    /\ UNCHANGED <<fetchVars, trendVars, healthVars, sourceVars, hnVars, given, tier_at_start,
                   pc, pre_dedup_count, global_keywords, outputs, config>>

\* collector._calculate_scores(), on both collectors
RunCalculateScores ==
    /\ ops \in {<<>>, <<"dedup">>}
    /\ trends_before' = trends
    /\ global_keywords' = GlobalKeywords(trends)
    /\ \E r \in {[k \in 1..2 |-> CalculateScores(<<trends, other_trends>>[k])]} :
           /\ trends' = r[1]
           /\ other_trends' = r[2]
    /\ ops' = Append(ops, "score")
    /\ UNCHANGED <<fetchVars, trendVars, healthVars, sourceVars, hnVars, given, tier_at_start,
                   pc, pre_dedup_count, outputs, config>>

\* what collect_all does with the collected list: pre_dedup_count,
\* _deduplicate, _calculate_scores, sort by score (lines 908-913)
RankAll ==
    /\ ops = <<>>
    /\ trends_before' = trends
    /\ pre_dedup_count' = Len(trends)
    /\ \E unique \in {[k \in 1..2 |-> Deduplicate(<<trends, other_trends>>[k], config)]} :
           /\ global_keywords' = GlobalKeywords(unique[1])
           /\ \E r \in {[k \in 1..2 |-> SortByScore(CalculateScores(unique[k]))]} :
                  /\ trends' = r[1]
                  /\ other_trends' = r[2]
    /\ ops' = Append(ops, "rank")
    /\ UNCHANGED <<fetchVars, trendVars, healthVars, sourceVars, hnVars, given, tier_at_start,
                   pc, outputs, config>>

NextRank == RunDeduplicate \/ RunCalculateScores \/ RankAll

SpecRank == InitRank /\ [][NextRank]_vars

\* Trends that all report the same story: the first two have the same
\* quality-weighted score (1.5 * 1.30) and different timestamps, the last
\* two the same weighted score (2.0 * 1.18) and the same timestamp
TiePool ==
    { BatchTrend(a.title, a.source, a.score, a.timestamp) :
        a \in { [title |-> TitleRoverNpr, source |-> "news_npr",
                 score |-> 15, timestamp |-> StartTime - 3600],
                [title |-> TitleRoverLobsters, source |-> "news_wapo",
                 score |-> 15, timestamp |-> StartTime - 600],
                [title |-> TitleRoverLobsters, source |-> KeyHn,
                 score |-> 20, timestamp |-> StartTime - 1800],
                [title |-> TitleRoverNpr, source |-> "tech_verge",
                 score |-> 20, timestamp |-> StartTime - 1800] } }

\* the lists of up to MaxBatch different Trends of the same story
TieBatches ==
    UNION { {b \in [1..n -> TiePool] : \A i, j \in 1..n : i # j => b[i] # b[j]}
              : n \in 1..MaxBatch }

\* two collectors hold the same Trends of one story, the second one in any
\* order
InitTies ==
    /\ now = StartTime
    /\ ticks = 0
    /\ calls = 0
    /\ feed_failures = EmptyDict
    /\ feed_cache = EmptyDict
    /\ persistent_feed_cache = EmptyDict
    /\ persistent_cache_dirty = FALSE
    /\ file_writes = <<>>
    /\ last = NoCall
    /\ NoRecords
    /\ pc = 0
    /\ pre_dedup_count = 0
    /\ tier_at_start = EmptyDict
    /\ global_keywords = {}
    /\ outputs = <<>>
    /\ config \in DedupConfigs
    /\ given \in TieBatches
    /\ trends = given
    /\ other_trends \in Orderings(given)
    /\ trends_before = <<>>
    /\ ops = <<>>
    /\ NoSweep
    /\ NoSourceCall
    /\ NoStories

SpecTies == InitTies /\ [][NextRank]_vars

MaxScored == 4

TitleRoverProbe ==
    <<77, 97, 114, 115, 32, 114, 111, 118, 101, 114, 32, 112, 114, 111, 98, 101>>    \* "Mars rover probe"

\* Trends of sources of several tiers and risks whose keywords overlap in one
\* word (mars), in two (mars, rover) or in three, one of them with a word
\* that stands twice in its keywords
ScorePool ==
    { BatchTrend(a.title, a.source, a.score, a.timestamp) :
        a \in { [title |-> TitleRoverNpr, source |-> "news_npr",
                 score |-> 15, timestamp |-> StartTime - 3600],
                [title |-> TitleRoverCrater, source |-> "lobsters",
                 score |-> 20, timestamp |-> StartTime - 1800],
                [title |-> TitleProbe, source |-> KeyHn,
                 score |-> 20, timestamp |-> StartTime - 900],
                [title |-> TitleRoverProbe, source |-> "news_wapo",
                 score |-> 15, timestamp |-> StartTime - 600],
                [title |-> TitleRoverTwice, source |-> "reddit_science",
                 score |-> 20, timestamp |-> StartTime - 300] } }

\* the lists of up to MaxScored different Trends
ScoreBatches ==
    UNION { {b \in [1..n -> ScorePool] : \A i, j \in 1..n : i # j => b[i] # b[j]}
              : n \in 1..MaxScored }

\* one collector holds the Trends, the other one none
InitScore ==
    /\ now = StartTime
    /\ ticks = 0
    /\ calls = 0
    /\ feed_failures = EmptyDict
    /\ feed_cache = EmptyDict
    /\ persistent_feed_cache = EmptyDict
    /\ persistent_cache_dirty = FALSE
    /\ file_writes = <<>>
    /\ last = NoCall
    /\ NoRecords
    /\ pc = 0
    /\ pre_dedup_count = 0
    /\ tier_at_start = EmptyDict
    /\ global_keywords = {}
    /\ outputs = <<>>
    /\ config = DefaultConfig
    /\ given \in ScoreBatches
    /\ trends = given
    /\ other_trends = <<>>
    /\ trends_before = <<>>
    /\ ops = <<>>
    /\ NoSweep
    /\ NoSourceCall
    /\ NoStories

SpecScore == InitScore /\ [][NextRank]_vars

----------------------------------------------------------------------------
(* source_health_check.py: the probes *)

MaxEntries == 2

\* SourceSpec records of ALL_SOURCES, in its order (RSS, JSON, HTML): one
\* source of each kind.  category and name, the keys the report is sorted
\* by, are held as code points; json_count_path is held as its parts
\* (path.split(".")), empty for no path.
ALL_SOURCES ==
    << [key |-> "google_trends",
        name |-> <<71, 111, 111, 103, 108, 101, 32, 84, 114, 101, 110, 100, 115>>,    \* "Google Trends"
        url |-> "https://trends.google.com/trending/rss?geo=US",
        category |-> <<103, 101, 110, 101, 114, 97, 108>>,    \* "general"
        kind |-> "rss", selector |-> "", json_count_path |-> <<>>],
       [key |-> "github_search_api",
        name |-> <<71, 105, 116, 72, 117, 98, 32, 83, 101, 97, 114, 99, 104, 32, 65, 80, 73>>,    \* "GitHub Search API"
        url |-> "https://api.github.com/search/repositories?q=created:%3E2026-01-01&sort=stars&order=desc&per_page=10",
        category |-> <<99, 111, 109, 109, 117, 110, 105, 116, 121>>,    \* "community"
        kind |-> "json", selector |-> "", json_count_path |-> <<"items">>],
       [key |-> "github_trending_html",
        name |-> <<71, 105, 116, 72, 117, 98, 32, 84, 114, 101, 110, 100, 105, 110, 103, 32, 72, 84, 77, 76>>,    \* "GitHub Trending HTML"
        url |-> "https://github.com/trending?since=daily&spoken_language_code=en",
        category |-> <<99, 111, 109, 109, 117, 110, 105, 116, 121>>,    \* "community"
        kind |-> "html", selector |-> "article.Box-row", json_count_path |-> <<>>] >>

\* What one session.get of a probe meets: an exception (a timeout, a refused
\* connection) or a response.  `parsed` is what the parser of the source's
\* kind makes of the body: for feedparser.parse its bozo flag and the number
\* of entries, for response.json() the payload (type "invalid": it raises),
\* for soup.select(selector) the number of matches.
Raises == [kind |-> "exc", status_code |-> 0,
           parsed |-> [type |-> "none", bozo |-> FALSE, count |-> 0, fields |-> EmptyDict]]

Answer(status_code, type, bozo, count, fields) ==
    [kind |-> "resp", status_code |-> status_code,
     parsed |-> [type |-> type, bozo |-> bozo, count |-> count, fields |-> fields]]

\* a JSON value: a list of `count` items, an object with `fields`, null, a number
JsonValue(type, count, fields) ==
    [type |-> type, bozo |-> FALSE, count |-> count, fields |-> fields]

FeedAnswers ==
    {Answer(200, "feed", bozo, count, EmptyDict) : bozo \in BOOLEAN, count \in 0..MaxEntries}

JsonAnswers ==
    {Answer(200, "dict", FALSE, 1, [k \in {"items"} |-> JsonValue("list", count, EmptyDict)])
        : count \in {0, MaxEntries}}
    \cup {Answer(200, "dict", FALSE, 1, [k \in {"message"} |-> JsonValue("number", 0, EmptyDict)]),
          Answer(200, "list", FALSE, MaxEntries, EmptyDict),
          Answer(200, "invalid", FALSE, 0, EmptyDict)}

HtmlAnswers ==
    {Answer(200, "html", FALSE, count, EmptyDict) : count \in {0, MaxEntries}}

\* the answers to the first request of a probe of a source of this kind
FirstAnswers(kind) ==
    {Raises, Answer(503, "none", FALSE, 0, EmptyDict)}
        \cup (CASE kind = "rss" -> FeedAnswers
                [] kind = "json" -> JsonAnswers
                [] OTHER -> HtmlAnswers)

\* the answer a second request would get: an exception again, or a healthy
\* response
SecondAnswers(kind) ==
    {Raises,
     CASE kind = "rss" -> Answer(200, "feed", FALSE, MaxEntries, EmptyDict)
       [] kind = "json" ->
            Answer(200, "dict", FALSE, 1,
                   [k \in {"items"} |-> JsonValue("list", MaxEntries, EmptyDict)])
       [] OTHER -> Answer(200, "html", FALSE, MaxEntries, EmptyDict)}

\* what the endpoint of a source would answer to a first and to a second
\* request
AnswerScripts(kind) ==
    {<<first, second>> : first \in FirstAnswers(kind), second \in SecondAnswers(kind)}

\* _get_nested_value(payload, path): payload for no path; else one step per
\* part, into objects only, None (type "null") for a missing key or a
\* value that is no object
RECURSIVE GetNestedValue(_, _)
GetNestedValue(payload, path) ==
    IF path = <<>> THEN payload
    ELSE IF payload.type = "dict"
    THEN IF Head(path) \in DOMAIN payload.fields
         THEN GetNestedValue(payload.fields[Head(path)], Tail(path))
         ELSE GetNestedValue(JsonValue("null", 0, EmptyDict), Tail(path))
    ELSE JsonValue("null", 0, EmptyDict)

\* _base_result(source): http_status 0 stands for None; latency_ms and
\* checked_at, readings of the clock, are left out
BaseResult(source) ==
    [key |-> source.key, name |-> source.name, category |-> source.category,
     kind |-> source.kind, url |-> source.url, status |-> "down",
     http_status |-> 0, entry_count |-> 0, error |-> ""]

\* a feed without entries is down
CheckRssStrict(feed) ==
    IF feed.count > 0
    THEN [status |-> IF feed.bozo THEN "degraded" ELSE "healthy",
          entry_count |-> feed.count,
          error |-> IF feed.bozo THEN "bozo_exception" ELSE ""]
    ELSE [status |-> "down", entry_count |-> 0,
          error |-> IF feed.bozo THEN "bozo_exception" ELSE ""]

\* _check_rss(response), feed being feedparser.parse(response.content)
CheckRss(feed) ==
    LET entry_count == feed.count
        status == IF entry_count > 0 THEN "healthy" ELSE "degraded"
    IN  IF feed.bozo /\ entry_count = 0
        THEN [status |-> "down", entry_count |-> entry_count, error |-> "bozo_exception"]
        ELSE IF feed.bozo
        THEN [status |-> "degraded", entry_count |-> entry_count, error |-> "bozo_exception"]
        ELSE [status |-> status, entry_count |-> entry_count, error |-> ""]

\* _check_json(response, count_path), payload being response.json(), which
\* is not called here for a body that is no JSON (CheckSource)
CheckJson(payload, count_path) ==
    LET target == GetNestedValue(payload, count_path)
        entry_count == CASE target.type = "list" -> target.count
                         [] target.type = "dict" -> Cardinality(DOMAIN target.fields)
                         [] target.type = "null" -> 0
                         [] OTHER -> 1
    IN  [status |-> IF entry_count > 0 THEN "healthy" ELSE "degraded",
         entry_count |-> entry_count, error |-> ""]

\* _check_html(response, selector), page.count being len(soup.select(selector))
CheckHtml(page, selector) ==
    IF selector = ""
    THEN [status |-> "healthy", entry_count |-> 1, error |-> ""]
    ELSE [status |-> IF page.count > 0 THEN "healthy" ELSE "down",
          entry_count |-> page.count,
          error |-> IF page.count > 0 THEN "" ELSE "No matches for selector"]

\* result.update(check)
Update(result, check) ==
    [result EXCEPT !.status = check.status, !.entry_count = check.entry_count,
                   !.error = check.error]

\* check_source(session, source, timeout): ONE session.get, answered by the
\* first answer of the script; whatever is raised inside is a "down" row
CheckSource(source, script) ==
    LET result == BaseResult(source)
        response == script[1]
    IN  IF response.kind = "exc"
        THEN [result EXCEPT !.status = "down", !.error = "exc"]
        ELSE IF response.status_code >= 400
        THEN [result EXCEPT !.http_status = response.status_code,
                            !.status = "down", !.error = "HTTP"]
        ELSE IF source.kind = "rss"
        THEN Update([result EXCEPT !.http_status = response.status_code],
                    CheckRss(response.parsed))
        ELSE IF source.kind = "json"
        THEN IF response.parsed.type = "invalid"
             THEN [result EXCEPT !.http_status = response.status_code,
                                 !.status = "down", !.error = "exc"]
             ELSE Update([result EXCEPT !.http_status = response.status_code],
                         CheckJson(response.parsed, source.json_count_path))
        ELSE Update([result EXCEPT !.http_status = response.status_code],
                    CheckHtml(response.parsed, source.selector))

----------------------------------------------------------------------------
(* source_health_check.py: run_health_check *)

\* the workers argument: --workers is any int
WorkerCounts == {0, 1, 2, 3}

\* ThreadPoolExecutor(max_workers=max(1, workers))
PoolSize(count) == Max({1, count})

\* the row the main thread writes for a future whose result() raises
FailedRow(source) ==
    [key |-> source.key, name |-> source.name, category |-> source.category,
     kind |-> source.kind, url |-> source.url, status |-> "down",
     http_status |-> 0, entry_count |-> 0, error |-> "exc"]

\* (row["category"], row["name"]) of a is less than that of b
RowLess(a, b) ==
    \/ LexLess(a.category, b.category)
    \/ a.category = b.category /\ LexLess(a.name, b.name)

\* results.sort(key=lambda row: (row["category"], row["name"])): stable
RECURSIVE SortRows(_)
SortRows(rows) ==
    IF rows = <<>> THEN <<>>
    ELSE LET least == Min({i \in 1..Len(rows) :
                              \A j \in 1..Len(rows) : ~RowLess(rows[j], rows[i])})
         IN  <<rows[least]>>
               \o SortRows([k \in 1..(Len(rows) - 1) |->
                               IF k < least THEN rows[k] ELSE rows[k + 1]])

\* sum(1 for r in results if r["status"] == status)
CountStatus(rows, status) ==
    Cardinality({i \in 1..Len(rows) : rows[i].status = status})

Summary(rows) ==
    [total |-> Len(rows),
     healthy |-> CountStatus(rows, "healthy"),
     degraded |-> CountStatus(rows, "degraded"),
     down |-> CountStatus(rows, "down")]

\* every source is submitted to the executor before the main thread waits
InitHealth ==
    /\ now = StartTime
    /\ ticks = 0
    /\ calls = 0
    /\ feed_failures = EmptyDict
    /\ feed_cache = EmptyDict
    /\ persistent_feed_cache = EmptyDict
    /\ persistent_cache_dirty = FALSE
    /\ file_writes = <<>>
    /\ last = NoCall
    /\ NoRecords
    /\ NoRun
    /\ NoBatch
    /\ workers \in WorkerCounts
    /\ waiting = 1..Len(ALL_SOURCES)
    /\ running = {}
    /\ finished = EmptyDict
    /\ results = <<>>
    /\ report = EmptyDict
    /\ NoSourceCall
    /\ NoStories

\* an idle worker thread takes the next submitted probe from the queue
WorkerTakes ==
    /\ waiting # {}
    /\ Cardinality(running) < PoolSize(workers)
    /\ waiting' = waiting \ {Min(waiting)}
    /\ running' = running \cup {Min(waiting)}
    /\ UNCHANGED <<fetchVars, trendVars, runVars, rankVars, sourceVars, hnVars,
                   workers, finished, results, report>>

\* check_source returns in a worker thread: the future holds its row
WorkerFinishes(s) ==
    /\ s \in running
    /\ \E script \in AnswerScripts(ALL_SOURCES[s].kind) :
          finished' = Put(finished, s,
                          [raised |-> FALSE, script |-> script,
                           requests |-> 1,    \* check_source calls session.get once
                           row |-> CheckSource(ALL_SOURCES[s], script)])
    /\ running' = running \ {s}
    /\ UNCHANGED <<fetchVars, trendVars, runVars, rankVars, sourceVars, hnVars,
                   workers, waiting, results, report>>

\* the call fails in the worker thread with an exception check_source does
\* not catch: the future holds the exception
WorkerFails(s) ==
    /\ s \in running
    /\ finished' = Put(finished, s,
                       [raised |-> TRUE, script |-> <<Raises, Raises>>, requests |-> 0,
                        row |-> BaseResult(ALL_SOURCES[s])])
    /\ running' = running \ {s}
    /\ UNCHANGED <<fetchVars, trendVars, runVars, rankVars, sourceVars, hnVars,
                   workers, waiting, results, report>>

\* a future that failed is passed over, without a row
MainCollectsDropFailed(s) ==
    /\ s \in DOMAIN finished
    /\ results' = IF finished[s].raised THEN results
                  ELSE Append(results, finished[s].row)
    /\ finished' = Pop(finished, s)
    /\ UNCHANGED <<fetchVars, trendVars, runVars, rankVars, sourceVars, hnVars,
                   workers, waiting, running, report>>

\* the body of the as_completed loop for a completed future
MainCollects(s) ==
    /\ s \in DOMAIN finished
    /\ results' = Append(results,
                         IF finished[s].raised THEN FailedRow(ALL_SOURCES[s])
                         ELSE finished[s].row)
    /\ finished' = Pop(finished, s)
    /\ UNCHANGED <<fetchVars, trendVars, runVars, rankVars, sourceVars, hnVars,
                   workers, waiting, running, report>>

\* every future was taken: sort, summarise, return
Report ==
    /\ waiting = {}
    /\ running = {}
    /\ finished = EmptyDict
    /\ report = EmptyDict
    /\ \E sorted \in {SortRows(results)} :
          /\ results' = sorted
          /\ report' = [workers |-> workers, summary |-> Summary(sorted),
                        sources |-> sorted]
    /\ UNCHANGED <<fetchVars, trendVars, runVars, rankVars, sourceVars, hnVars,
                   workers, waiting, running, finished>>

NextHealth ==
    \/ WorkerTakes
    \/ \E s \in 1..Len(ALL_SOURCES) : WorkerFinishes(s)
    \/ \E s \in 1..Len(ALL_SOURCES) : WorkerFails(s)
    \/ \E s \in 1..Len(ALL_SOURCES) : MainCollects(s)
    \/ Report

SpecHealth == InitHealth /\ [][NextHealth]_vars

----------------------------------------------------------------------------
(* _fetch_source_feed: the timeout of a request.  Timeouts are whole        *)
(* seconds; 0 stands for None, which `or` passes over as it does 0.0        *)

UrlDefenseFallback == "https://news.google.com/rss/search?q=site:breakingdefense.com+(CMMC+OR+defense+cybersecurity)+when:7d&hl=en-US&gl=US&ceid=US:en"

SourceBreakingDefense ==
    [key |-> "cmmc_breakingdefense", url |-> UrlDefense, fallback_url |-> UrlDefenseFallback]

\* The sources the model fetches through _fetch_source_feed: one with no
\* override at all, one with a per-source and a per-domain override, one
\* with a per-domain override only
FeedSources == {SourceNpr, SourceWapo, SourceBreakingDefense}

\* SourceSpec.timeout_seconds of the catalog, 0 for None
TimeoutSeconds(key) ==
    CASE key = "news_wapo" -> 20
      [] OTHER             -> 0

\* DOMAIN_FETCH_PROFILES[hostname].get("timeout"), 0 when the host has no profile
ProfileTimeout(host) ==
    CASE host = "feeds.washingtonpost.com" -> 20
      [] host = "breakingdefense.com"      -> 15
      [] OTHER                             -> 0

\* values config.TIMEOUTS can give to "default" and "rss_feed"
TimeoutValues == {10, 15, 30}

\* a or b or c of Python on numbers
Or3(a, b, c) == IF a # 0 THEN a ELSE IF b # 0 THEN b ELSE c

\* the timeout argument the collector of a source passes:
\* source.timeout_seconds or self.default_timeout (_collect_news_rss),
\* source.timeout_seconds or self.feed_timeout (_collect_cmmc)
CollectorTimeout(source, default, feed) ==
    IF source.key \in {"news_npr", "news_wapo"}
    THEN Or3(TimeoutSeconds(source.key), default, default)
    ELSE Or3(TimeoutSeconds(source.key), feed, feed)

\* _fetch_source_feed, line 526:
\* effective_timeout = timeout or source.timeout_seconds or self.feed_timeout
SourceFeedTimeout(timeout, source, feed) ==
    Or3(timeout, TimeoutSeconds(source.key), feed)

\* _fetch_rss, line 713:
\* effective_timeout = float(timeout or domain_profile.get("timeout") or self.feed_timeout)
EffectiveTimeout(timeout, url, feed) ==
    Or3(timeout, ProfileTimeout(Hostname(url)), feed)

\* the session.get calls of one _fetch_rss(url, timeout=timeout, ...): the
\* nested call for the fallback is passed the same `timeout` and resolves
\* its own domain profile
Requests(reqs, timeout, feed) ==
    [i \in 1..Len(reqs) |->
        [url |-> reqs[i], timeout |-> EffectiveTimeout(timeout, reqs[i], feed)]]

InitSource ==
    /\ now = StartTime
    /\ ticks = 0
    /\ calls = 0
    /\ feed_failures = EmptyDict
    /\ feed_cache = EmptyDict
    /\ persistent_feed_cache = EmptyDict
    /\ persistent_cache_dirty = FALSE
    /\ file_writes = <<>>
    /\ last = NoCall
    /\ NoRecords
    /\ NoRun
    /\ NoBatch
    /\ NoSweep
    /\ default_timeout \in TimeoutValues
    /\ feed_timeout \in TimeoutValues
    /\ source_call = NoSourceFetch
    /\ NoStories

\* a collector calls _fetch_source_feed(source, timeout=...)
FetchSourceFeed ==
    /\ calls < MaxCalls
    /\ source_call = NoSourceFetch
    /\ \E source \in FeedSources :
       \E net \in NetScripts(RequestBudget([url |-> source.url, source_key |-> source.key,
                                            fallback_url |-> source.fallback_url])) :
       \E timeout \in {SourceFeedTimeout(
                           CollectorTimeout(source, default_timeout, feed_timeout),
                           source, feed_timeout)} :
       \E r \in {FetchRss(Collector, now, source.url, source.key,
                          source.fallback_url, TRUE, net)} :
           /\ feed_failures' = r.c.feed_failures
           /\ feed_cache' = r.c.feed_cache
           /\ persistent_feed_cache' = r.c.persistent_feed_cache
           /\ persistent_cache_dirty' = r.c.dirty
           /\ source_call' = [source |-> source.key, timeout |-> timeout,
                              requests |-> Requests(r.reqs, timeout, feed_timeout)]
    /\ calls' = calls + 1
    /\ UNCHANGED <<now, ticks, file_writes, last,
                   default_timeout, feed_timeout>>
    /\ UNCHANGED <<trendVars, runVars, rankVars, healthVars, hnVars>>

\* the collector takes the response
SourceReturn ==
    /\ source_call # NoSourceFetch
    /\ source_call' = NoSourceFetch
    /\ UNCHANGED <<fetchVars, default_timeout, feed_timeout>>
    /\ UNCHANGED <<trendVars, runVars, rankVars, healthVars, hnVars>>

NextSource == FetchSourceFeed \/ SourceReturn

SpecSource == InitSource /\ [][NextSource]_vars

----------------------------------------------------------------------------
(* _collect_hackernews: the top stories and the pool of story fetches *)

MaxLimit == 2
MaxStories == 4

\* NON_ENGLISH_PATTERNS, as ranges of code points
NON_ENGLISH_PATTERNS ==
    { <<19968, 40959>>, <<12352, 12447>>, <<12448, 12543>>, <<44032, 55215>>,
      <<1536, 1791>>, <<1024, 1279>>, <<2304, 2431>>, <<3584, 3711>>,
      <<1424, 1535>>, <<4352, 4607>> }

\* the Latin letters is_english_text counts with the ASCII characters
LatinLetters == (224..246) \cup (248..253) \cup {255}

\* is_english_text
IsEnglishText(text) ==
    /\ text # <<>>
    /\ ~\E k \in 1..Len(text) : \E r \in NON_ENGLISH_PATTERNS : r[1] <= text[k] /\ text[k] <= r[2]
    /\ ~(Cardinality({k \in 1..Len(text) : text[k] < 128 \/ text[k] \in LatinLetters}) * 10
            < 7 * Len(text))

TitleCyrillic ==
    <<1052, 1072, 1088, 1089, 32, 50, 48, 51, 48>>    \* "Марс 2030"

\* JSON null in a field of an item
Null == -1

\* What hacker-news.firebaseio.com/v0/item/<id>.json answers for the story
\* ids of the model: a story, an error, a story with neither url nor time,
\* null, a story with a title that is not English, an item whose score is
\* null.  An absent title is <<>>, an absent url "", an absent time 0.
Item(story_id) ==
    CASE story_id = 1 -> [answer |-> "json", title |-> TitleRoverNpr, score |-> 250,
                          url |-> "https://example.org/rover", time |-> StartTime - 3600]
      [] story_id = 2 -> [answer |-> "raises", title |-> <<>>, score |-> 0, url |-> "", time |-> 0]
      [] story_id = 3 -> [answer |-> "json", title |-> TitleProbe, score |-> 450,
                          url |-> "", time |-> 0]
      [] story_id = 4 -> [answer |-> "null", title |-> <<>>, score |-> 0, url |-> "", time |-> 0]
      [] story_id = 5 -> [answer |-> "json", title |-> TitleCyrillic, score |-> 120,
                          url |-> "https://example.org/mars", time |-> StartTime - 600]
      [] OTHER        -> [answer |-> "json", title |-> TitleChips, score |-> Null,
                          url |-> "", time |-> StartTime - 60]

StoryIds == 1..6

\* response.json() of the top stories: lists of different story ids
TopStories ==
    UNION { {l \in [1..n -> StoryIds] : \A i, j \in 1..n : i # j => l[i] # l[j]}
              : n \in 0..MaxStories }

ItemUrl(story_id) ==
    CASE story_id = 1 -> "https://news.ycombinator.com/item?id=1"
      [] story_id = 2 -> "https://news.ycombinator.com/item?id=2"
      [] story_id = 3 -> "https://news.ycombinator.com/item?id=3"
      [] story_id = 4 -> "https://news.ycombinator.com/item?id=4"
      [] story_id = 5 -> "https://news.ycombinator.com/item?id=5"
      [] OTHER        -> "https://news.ycombinator.com/item?id=6"

NoResult == [kind |-> "none", index |-> 0, trend |-> EmptyDict]

\* _fetch_story(index, story_id): None, (index, trend), or an exception that
\* leaves the function (score / 100 on a score that is not a number)
FetchStory(index, story_id, source_key, t) ==
    LET story == Item(story_id)
    IN  IF story.answer # "json" THEN NoResult
        ELSE IF story.title = <<>> \/ ~IsEnglishText(story.title) THEN NoResult
        ELSE IF story.score = Null THEN [NoResult EXCEPT !.kind = "raised"]
        ELSE [kind |-> "item", index |-> index,
              trend |-> PostInit(
                  [title |-> story.title, source |-> source_key,
                   url |-> IF story.url # "" THEN story.url ELSE ItemUrl(story_id),
                   description |-> <<>>,
                   score |-> ScoreUnit + Min({story.score * (ScoreUnit \div 100),
                                               3 * ScoreUnit}),
                   keywords |-> <<>>, timestamp |-> story.time, image_url |-> "",
                   corroborating_sources |-> <<>>, corroborating_urls |-> <<>>], t)]

\* max_workers = max(2, min(8, limit // 2 or 2))
MaxWorkers(n) ==
    Max({2, Min({8, IF n \div 2 # 0 THEN n \div 2 ELSE 2})})

\* fetched.sort(key=lambda item: item[0]): a stable insertion by index
RECURSIVE SortByIndex(_)
SortByIndex(list) ==
    IF list = <<>> THEN <<>>
    ELSE LET rest == SortByIndex(SubSeq(list, 1, Len(list) - 1))
             item == list[Len(list)]
             before == Cardinality({k \in 1..Len(rest) : rest[k].index <= item.index})
         IN  SubSeq(rest, 1, before) \o <<item>> \o SubSeq(rest, before + 1, Len(rest))

\* the stories in the order their fetches completed
TrendsAsCompleted(list, n) ==
    [k \in 1..Len(Take(list, n)) |-> list[k].trend]

\* trends = [trend for _, trend in fetched[:limit]], after the sort
SortedTrends(list, n) ==
    [k \in 1..Len(Take(list, n)) |-> SortByIndex(list)[k].trend]

InitHn ==
    /\ now = StartTime
    /\ ticks = 0
    /\ calls = 0
    /\ feed_failures = EmptyDict
    /\ feed_cache = EmptyDict
    /\ persistent_feed_cache = EmptyDict
    /\ persistent_cache_dirty = FALSE
    /\ file_writes = <<>>
    /\ last = NoCall
    /\ NoRecords
    /\ NoRun
    /\ NoBatch
    /\ NoSweep
    /\ NoSourceCall
    /\ hn_pc = "idle"
    /\ limit \in 1..MaxLimit
    /\ story_ids = <<>>
    /\ submitted = {}
    /\ fetching = {}
    /\ completed = EmptyDict
    /\ fetched = <<>>
    /\ hn_trends = <<>>

\* the request for the top stories fails: logged, the empty list is returned
TopStoriesFail ==
    /\ hn_pc = "idle"
    /\ hn_pc' = "returned"
    /\ UNCHANGED <<fetchVars, trendVars, runVars, rankVars, healthVars, sourceVars,
                   limit, story_ids, submitted, fetching, completed, fetched, hn_trends>>

\* the top stories arrive: the first 2 * limit ids are submitted to the pool
SubmitStories ==
    /\ hn_pc = "idle"
    /\ \E top \in TopStories :
          /\ story_ids' = Take(top, Max({limit * 2, limit}))
          /\ submitted' = 0..(Len(Take(top, Max({limit * 2, limit}))) - 1)
    /\ hn_pc' = "pool"
    /\ UNCHANGED <<fetchVars, trendVars, runVars, rankVars, healthVars, sourceVars,
                   limit, fetching, completed, fetched, hn_trends>>

\* an idle worker thread takes the next submitted _fetch_story
StoryWorkerTakes ==
    /\ hn_pc \in {"pool", "raised"}
    /\ submitted # {}
    /\ Cardinality(fetching) < MaxWorkers(limit)
    /\ submitted' = submitted \ {Min(submitted)}
    /\ fetching' = fetching \cup {Min(submitted)}
    /\ UNCHANGED <<fetchVars, trendVars, runVars, rankVars, healthVars, sourceVars,
                   hn_pc, limit, story_ids, completed, fetched, hn_trends>>

\* _fetch_story ends in a worker thread: the future holds its result
StoryWorkerFinishes(index) ==
    /\ hn_pc \in {"pool", "raised"}
    /\ index \in fetching
    /\ fetching' = fetching \ {index}
    /\ completed' = Put(completed, index,
                        FetchStory(index, story_ids[index + 1], KeyHn, now))
    /\ UNCHANGED <<fetchVars, trendVars, runVars, rankVars, healthVars, sourceVars,
                   hn_pc, limit, story_ids, submitted, fetched, hn_trends>>

\* the body of the as_completed loop for a completed future; future.result()
\* raises what _fetch_story raised, which ends the loop
MainTakesStory(index) ==
    /\ hn_pc = "pool"
    /\ index \in DOMAIN completed
    /\ completed' = Pop(completed, index)
    /\ fetched' = IF completed[index].kind = "item"
                  THEN Append(fetched, completed[index])
                  ELSE fetched
    /\ hn_pc' = IF completed[index].kind = "raised" THEN "raised" ELSE "pool"
    /\ UNCHANGED <<fetchVars, trendVars, runVars, rankVars, healthVars, sourceVars,
                   limit, story_ids, submitted, fetching, hn_trends>>

\* the exception leaves the with block once every worker is done, and is
\* logged: the empty list is returned
ReturnAfterError ==
    /\ hn_pc = "raised"
    /\ submitted = {}
    /\ fetching = {}
    /\ hn_pc' = "returned"
    /\ UNCHANGED <<fetchVars, trendVars, runVars, rankVars, healthVars, sourceVars,
                   limit, story_ids, submitted, fetching, completed, fetched, hn_trends>>

\* every future was taken: sort by index, keep the first limit stories
ReturnStories ==
    /\ hn_pc = "pool"
    /\ submitted = {}
    /\ fetching = {}
    /\ completed = EmptyDict
    /\ hn_trends' = SortedTrends(fetched, limit)
    /\ hn_pc' = "returned"
    /\ UNCHANGED <<fetchVars, trendVars, runVars, rankVars, healthVars, sourceVars,
                   limit, story_ids, submitted, fetching, completed, fetched>>

NextHn ==
    \/ TopStoriesFail
    \/ SubmitStories
    \/ StoryWorkerTakes
    \/ \E index \in 0..(Len(story_ids) - 1) : StoryWorkerFinishes(index)
    \/ \E index \in 0..(Len(story_ids) - 1) : MainTakesStory(index)
    \/ ReturnAfterError
    \/ ReturnStories

SpecHn == InitHn /\ [][NextHn]_vars

----------------------------------------------------------------------------
(* What the claims speak about *)

Called == last # NoCall

\* the fallback the call turns to: the argument, else the registry's
LastFallback ==
    IF last.fallback_url # "" THEN last.fallback_url
    ELSE IF last.source_key = KeyHn THEN UrlHnRss ELSE ""

\* the scope of the nested call on the fallback url
LastFallbackScope ==
    IF last.source_key # "" THEN last.source_key ELSE LastFallback

HasFallback == LastFallback # "" /\ LastFallback # last.url

\* the scope's count has reached the threshold and its deadline lies ahead
InCooldown(ff, scope, t) ==
    /\ scope \in DOMAIN ff
    /\ ff[scope].count >= 2
    /\ t < ff[scope].cooldown_until

\* the count a scope carries into a call made at t: a state whose deadline
\* has passed counts for nothing
CountAt(ff, scope, t) ==
    IF scope \notin DOMAIN ff THEN 0
    ELSE IF ff[scope].cooldown_until > 0 /\ t >= ff[scope].cooldown_until THEN 0
    ELSE ff[scope].count

RequestsTo(url) == {i \in 1..Len(last.reqs) : last.reqs[i] = url}

\* C1: while a scope's failure count has reached the threshold and its
\* cooldown deadline has not passed, a fetch for that scope makes no network
\* request: neither the call itself, nor the nested call on the fallback
\* when it is the fallback's scope that is on cooldown.
C1_CooldownNoRequests ==
    Called =>
        /\ InCooldown(last.pre.feed_failures, last.scope, last.at)
              => last.reqs = <<>>
        /\ (HasFallback
            /\ InCooldown(last.pre.feed_failures, LastFallbackScope, last.at))
              => RequestsTo(LastFallback) = {}

\* a call made while the cooldown set some time ago is still running ends
\* without a request
C1_Witness ==
    /\ Called
    /\ InCooldown(last.pre.feed_failures, last.scope, last.at)
    /\ last.at > last.pre.feed_failures[last.scope].cooldown_until - 300
    /\ last.reqs = <<>>

\* the call was made outside a cooldown, no request of it was accepted, and
\* it returned
TotalFailure ==
    /\ Called
    /\ ~InCooldown(last.pre.feed_failures, last.scope, last.at)
    /\ last.result.origin # "network"
    /\ last.result.kind # "raise"

\* C2: a call that ends in total failure raises the scope's failure count by
\* exactly one, and the scope is on cooldown afterwards exactly when the
\* count has reached 2; so one failed call from a clean scope never starts a
\* cooldown.
C2_OneFailureOneCount ==
    TotalFailure =>
        LET before == CountAt(last.pre.feed_failures, last.scope, last.at)
            after  == CountAt(feed_failures, last.scope, last.at)
        IN  /\ after = before + 1
            /\ InCooldown(feed_failures, last.scope, last.at) <=> (after >= 2)
            /\ before = 0 => ~InCooldown(feed_failures, last.scope, last.at)

\* C2 for the calls that have no fallback to turn to
C2_NoFallbackOneCount == ~HasFallback => C2_OneFailureOneCount

\* C3: after a call in which a network attempt was accepted the scope has no
\* circuit state, whatever it had before.
C3_SuccessClears ==
    (Called /\ last.result.origin = "network") => last.scope \notin DOMAIN feed_failures

\* an accepted response clears a scope that had a failure on record
C3_Witness ==
    /\ Called
    /\ last.result.origin = "network"
    /\ last.scope \in DOMAIN last.pre.feed_failures
    /\ last.scope \notin DOMAIN feed_failures

\* every request to the primary is answered 403 and the request after them
\* with a valid feed, and there is a distinct fallback
ForbiddenThenFeed ==
    /\ Called
    /\ HasFallback
    /\ Len(last.net) > Attempts(last.url)
    /\ \A i \in 1..Attempts(last.url) : last.net[i] = NetForbidden
    /\ last.net[Attempts(last.url) + 1] \in OkOutcomes

ReturnsFallbackFeed ==
    /\ last.result.kind = "response"
    /\ last.result.origin = "network"
    /\ last.result.resp.url = LastFallback
    /\ last.result.resp.content = last.net[Attempts(last.url) + 1].content

\* C4 as claimed: a primary that answers 403 and a distinct fallback that
\* answers with a valid feed give the fallback's response after exactly two
\* requests.
C4_ExactlyTwoRequests ==
    ForbiddenThenFeed => (ReturnsFallbackFeed /\ Len(last.reqs) = 2)

\* C4 as amended: outside a cooldown of the call's scope and of the
\* fallback's scope, a primary that answers 403 to every attempt and a
\* distinct fallback that answers with a valid feed give the fallback's
\* response after attempts(primary) + 1 requests.
C4_FallbackAfterPrimaryAttempts ==
    (/\ ForbiddenThenFeed
     /\ ~InCooldown(last.pre.feed_failures, last.scope, last.at)
     /\ ~InCooldown(last.pre.feed_failures, LastFallbackScope, last.at))
    => /\ ReturnsFallbackFeed
       /\ last.reqs = [i \in 1..(Attempts(last.url) + 1) |->
                          IF i <= Attempts(last.url) THEN last.url ELSE LastFallback]

\* a primary with two attempts answers 403 twice and the fallback's feed is
\* returned after three requests
C4_Witness ==
    /\ ForbiddenThenFeed
    /\ ReturnsFallbackFeed
    /\ Attempts(last.url) = 2
    /\ Len(last.reqs) = 3

\* C5: the requests of a call are at most attempts(primary) to the primary
\* followed by at most attempts(fallback) to the fallback; the fallback is
\* asked only after every primary attempt failed and only when it differs
\* from the primary, and no third url is ever asked.
C5_BoundedRequests ==
    Called =>
        \E a \in 0..Attempts(last.url) :
        \E b \in 0..(IF HasFallback THEN Attempts(LastFallback) ELSE 0) :
            /\ last.reqs = [i \in 1..(a + b) |->
                               IF i <= a THEN last.url ELSE LastFallback]
            /\ b > 0 => /\ a = Attempts(last.url)
                        /\ \A i \in 1..a : last.net[i] \in FailOutcomes

\* a keyed call whose primary attempts and fallback attempts all fail stops
\* there, although the registry names a further fallback for the key
C5_Witness ==
    /\ Called
    /\ last.source_key = KeyHn
    /\ last.fallback_url = UrlPrimary
    /\ last.url = UrlDefense
    /\ last.reqs = <<UrlDefense, UrlDefense, UrlPrimary>>
    /\ last.result.kind = "none"

\* the in-memory tier holds an entry of the scope no older than 10 minutes
MemoryUnexpired(c, scope, t) ==
    /\ scope \in DOMAIN c.feed_cache
    /\ t - c.feed_cache[scope].timestamp <= 600

\* the persisted tier holds an entry of the scope no older than 24 hours
PersistedUnexpired(c, scope, t) ==
    /\ scope \in DOMAIN c.persistent_feed_cache
    /\ c.persistent_feed_cache[scope].form # "bad_timestamp"
    /\ t - c.persistent_feed_cache[scope].timestamp <= 86400

\* C6: a call that returns cached data returns an entry of its scope that is
\* within its tier's TTL, the in-memory entry when that one is unexpired, and
\* a call that got nothing from the network returns no response when
\* neither tier holds an unexpired entry of the scope.
C6_CachedWithinTtl ==
    Called =>
        /\ last.result.origin = "memory" =>
              /\ MemoryUnexpired(last.pre, last.scope, last.at)
              /\ last.result.resp.content = last.pre.feed_cache[last.scope].content
        /\ last.result.origin = "persisted" =>
              /\ PersistedUnexpired(last.pre, last.scope, last.at)
              /\ ~MemoryUnexpired(last.pre, last.scope, last.at)
              /\ last.result.resp.content =
                    B64Decode(last.pre.persistent_feed_cache[last.scope].content_b64)
        /\ (/\ last.result.origin # "network"
            /\ ~MemoryUnexpired(last.pre, last.scope, last.at)
            /\ ~PersistedUnexpired(last.pre, last.scope, last.at))
              => last.result.kind # "response"

\* C6 for the calls whose nested call on the fallback shares their scope
C6_SameScopeCachedWithinTtl ==
    (HasFallback => LastFallbackScope = last.scope) => C6_CachedWithinTtl

\* C7: after a call that succeeded through the primary or the fallback, both
\* tiers hold under the call's scope an entry written at the call with the
\* content that was returned.
C7_SuccessCachedUnderScope ==
    (Called /\ last.result.origin = "network") =>
        /\ last.scope \in DOMAIN feed_cache
        /\ feed_cache[last.scope].timestamp = last.at
        /\ feed_cache[last.scope].content = last.result.resp.content
        /\ last.scope \in DOMAIN persistent_feed_cache
        /\ persistent_feed_cache[last.scope].timestamp = last.at
        /\ B64Decode(persistent_feed_cache[last.scope].content_b64)
              = last.result.resp.content

\* C7 for the calls whose nested call on the fallback shares their scope
C7_SameScopeSuccessCached ==
    (HasFallback => LastFallbackScope = last.scope) => C7_SuccessCachedUnderScope

\* C8: a call ends by returning a response or None, it never raises.
C8_NeverRaises == Called => last.result.kind \in {"response", "none"}

\* C8 when the cache file held no entry of a wrong type
C8_CleanFileNeverRaises ==
    (\A s \in DOMAIN last.pre.persistent_feed_cache :
        last.pre.persistent_feed_cache[s].form = "ok") => C8_NeverRaises

----------------------------------------------------------------------------
(* Trend records and collect_all *)

\* C10: every Trend, after construction and after any register_corroboration
\* calls, has a non-empty corroborating_sources that contains its own source
\* key, and its source_diversity is the number of distinct entries of
\* corroborating_sources.
C10_CorroborationInvariant ==
    \A i \in 1..Len(records) :
        /\ records[i].corroborating_sources # <<>>
        /\ records[i].source \in Range(records[i].corroborating_sources)
        /\ records[i].source_diversity
              = Cardinality(Range(records[i].corroborating_sources))

\* a record that was built from a list with a repeated source has taken in
\* the sources of another record
C10_Witness ==
    /\ last_op = "register"
    /\ \E i \in 1..Len(records) :
           /\ Len(records[i].corroborating_sources)
                 > Cardinality(Range(records[i].corroborating_sources))
           /\ records[i].source_diversity >= 3

\* the Trends of the collectors run so far that returned, in order
RECURSIVE Collected(_)
Collected(k) ==
    IF k = 0 THEN <<>> ELSE Collected(k - 1) \o outputs[k].trends

\* C9: whichever collectors raise, collect_all runs every collector, and
\* what it returns is the deduplicated, scored and sorted list of the Trends
\* of the collectors that returned: none of their source keys is missing
\* and the scores do not increase along the list.
C9_RunCompletes ==
    /\ pc \in 1..LoopDone =>
          /\ Len(outputs) = pc - 1
          /\ trends = Collected(Len(outputs))
    /\ pc = Returned =>
          /\ Len(outputs) = NumCollectors
          /\ pre_dedup_count = Len(Collected(NumCollectors))
          /\ \E found \in SUBSET {LinkNpr, LinkLobsters} :
                 trends = ScrapeOgImages(
                              SortByScore(CalculateScores(
                                  Deduplicate(Collected(NumCollectors), config))), found)
          /\ \A k \in 1..NumCollectors : \A i \in 1..Len(outputs[k].trends) :
                 \E j \in 1..Len(trends) :
                     outputs[k].trends[i].source \in Range(trends[j].corroborating_sources)
          /\ \A i, j \in 1..Len(trends) : i < j => trends[i].score >= trends[j].score

\* the run returned although the second collector raised; the first and the
\* third returned Trends, and the duplicates among these were merged
C9_Witness ==
    /\ pc = Returned
    /\ outputs[2].raised
    /\ outputs[1].trends # <<>>
    /\ outputs[3].trends # <<>>
    /\ Len(trends) < pre_dedup_count
    /\ \E j \in 1..Len(trends) : trends[j].source_diversity >= 2

----------------------------------------------------------------------------
(* Deduplication *)

\* the test _deduplicate makes on a seed and a candidate: they share a token
\* and meet one of the four duplicate criteria
Related(x, y, cfg) ==
    /\ TitleTokens(x.title) \cap TitleTokens(y.title) # {}
    /\ IsDuplicate(x.title, y.title, cfg)

\* on the records of the list the test is symmetric and transitive
RelatedIsEquivalence(list, cfg) ==
    \E R \in {{pair \in (1..Len(list)) \X (1..Len(list)) :
                  /\ pair[1] # pair[2]
                  /\ Related(list[pair[1]], list[pair[2]], cfg)}} :
        /\ \A pair \in R : <<pair[2], pair[1]>> \in R
        /\ \A p \in R : \A q \in R :
               (p[2] = q[1] /\ p[1] # q[2]) => <<p[1], q[2]>> \in R

\* C11: _deduplicate is idempotent: a second run on the output of the first
\* merges nothing and returns the same set of records.
C11_DedupIdempotent ==
    ops = <<"dedup", "dedup">> => Range(trends) = Range(trends_before)

\* C11 for the lists on which the duplicate test is an equivalence
C11_EquivalenceDedupIdempotent ==
    (ops = <<"dedup", "dedup">> /\ RelatedIsEquivalence(given, config))
        => Range(trends) = Range(trends_before)

\* a list of two records of distinct sources that duplicate each other has
\* been deduplicated
TwoDuplicates ==
    /\ ops = <<"dedup">>
    /\ Len(given) = 2
    /\ given[1].source # given[2].source
    /\ Related(given[1], given[2], config)

\* the scores of the scenario: 2.0 for the first record, 1.5 for the second
ScenarioScores ==
    /\ given[1].score = ScoreOfTenths(20)
    /\ given[2].score = ScoreOfTenths(15)

\* the one record that is left has the title of `kept` and the sources of
\* both, the source of `kept` first
MergedInto(kept, merged) ==
    /\ Len(trends) = 1
    /\ trends[1].title = kept.title
    /\ trends[1].corroborating_sources = <<kept.source, merged.source>>
    /\ trends[1].source_diversity = 2

\* C12 as claimed: two duplicates, the first of source A with score 2.0 and
\* the second of source B with score 1.5, become one record with the first
\* one's title, corroborating_sources [A, B] and source_diversity 2,
\* whatever the two sources are.
C12_FirstTitleKept ==
    (TwoDuplicates /\ ScenarioScores) => MergedInto(given[1], given[2])

\* C12 as amended: two duplicates of distinct sources become one record
\* with source_diversity 2 that keeps the title of the record whose
\* (score * source quality multiplier, timestamp) is the greater one, the
\* first record on a tie, and lists that record's source first.
C12_BetterQualityTitleKept ==
    TwoDuplicates =>
        IF QualityLess(Quality(given[1]), Quality(given[2]))
        THEN MergedInto(given[2], given[1])
        ELSE MergedInto(given[1], given[2])

\* the scenario with a first record whose weighted score is the greater one
C12_Witness ==
    /\ TwoDuplicates
    /\ ScenarioScores
    /\ ~QualityLess(Quality(given[1]), Quality(given[2]))
    /\ MergedInto(given[1], given[2])

\* C13: _deduplicate partitions its input: every input record is in exactly
\* one cluster, the output has one record per cluster, which is one of the
\* cluster's members, a lone member as it was; its corroborating_sources
\* are the source keys of the members of the cluster and source_diversity
\* is their number; so no input source key is missing from the output.
C13_DedupPartitions ==
    ops = <<"dedup">> =>
        \E clusters \in {Clusters(given, config, 1, {})} :
            /\ \A i \in 1..Len(given) :
                   Cardinality({k \in 1..Len(clusters) : i \in Range(clusters[k])}) = 1
            /\ Len(trends) = Len(clusters)
            /\ \A k \in 1..Len(clusters) :
                   /\ \E i \in Range(clusters[k]) : trends[k].title = given[i].title
                   /\ Len(clusters[k]) = 1 => trends[k] = given[clusters[k][1]]
                   /\ Range(trends[k].corroborating_sources)
                         = {given[i].source : i \in Range(clusters[k])}
                   /\ trends[k].source_diversity
                         = Cardinality({given[i].source : i \in Range(clusters[k])})
            /\ \A i \in 1..Len(given) : \E k \in 1..Len(trends) :
                   given[i].source \in Range(trends[k].corroborating_sources)

\* three records became two: a merged one with two sources and a lone one
C13_Witness ==
    /\ ops = <<"dedup">>
    /\ Len(given) = 3
    /\ Len(trends) = 2
    /\ \E k \in 1..2 : trends[k].source_diversity = 2
    /\ \E k \in 1..2 : trends[k] \in Range(given)

\* the merged source sets of the records of a list
SourceSets(list) == {Range(list[k].corroborating_sources) : k \in 1..Len(list)}

SamePartition ==
    /\ Len(trends) = Len(other_trends)
    /\ SourceSets(trends) = SourceSets(other_trends)

\* C14 as claimed: two orderings of the same records give the same number
\* of output records with the same merged source sets.
C14_OrderInsensitive == ops = <<"dedup">> => SamePartition

\* C14 as amended: when the duplicate test is symmetric and transitive on
\* the records of the input, two orderings of them give the same number of
\* output records with the same merged source sets.
C14_EquivalenceOrderInsensitive ==
    ops = <<"dedup">> => (SamePartition \/ ~RelatedIsEquivalence(given, config))

\* three records in two orders were clustered alike, and the two outputs
\* list the clusters in different orders
C14_Witness ==
    /\ ops = <<"dedup">>
    /\ RelatedIsEquivalence(given, config)
    /\ Len(given) = 3
    /\ Len(trends) = 2
    /\ SamePartition
    /\ trends[1].title # other_trends[1].title

----------------------------------------------------------------------------
(* Scoring *)

\* _calculate_scores has just run
Scored == ops # <<>> /\ ops[Len(ops)] = "score"

\* the keywords of the records of a list
KeywordsOf(list) == UNION {Range(list[i].keywords) : i \in 1..Len(list)}

\* the records of a list that hold the word, each one once
RecordsWith(list, word) == {i \in 1..Len(list) : word \in Range(list[i].keywords)}

\* C15: after _calculate_scores a keyword is global if and only if at least
\* 3 distinct records hold it, a record counting once however often it
\* repeats the keyword; a keyword of exactly 2 records is not global.
C15_GlobalIffThreeRecords ==
    Scored =>
        \A w \in global_keywords \cup KeywordsOf(trends_before) :
            w \in global_keywords <=> Cardinality(RecordsWith(trends_before, w)) >= 3

\* a keyword of exactly 3 records, one of which repeats it, is global
C15_Witness ==
    /\ Scored
    /\ \E w \in global_keywords :
          /\ Cardinality(RecordsWith(trends_before, w)) = 3
          /\ StoryWordOccurrences(trends_before, w) > 3

\* the record as it would be with so many corroborating sources
WithDiversity(trend, diversity) == [trend EXCEPT !.source_diversity = diversity]

\* the numbers of sources the scores are compared for
Diversities == 1..7

\* C16: with base score, keywords and source fixed, the final score of a
\* record does not decrease when its source_diversity grows: the diversity
\* factor is 1 at diversity 1, 0.08 more for every further source, and
\* 1.35 at most.  Every record scored by _calculate_scores gets the score of
\* its own diversity.
C16_DiversityMonotone ==
    Scored =>
        \A i \in 1..Len(trends_before) : \A d \in Diversities :
            \E single \in {ScoreTrend(WithDiversity(trends_before[i], 1), trends_before)} :
            \E lower \in {ScoreTrend(WithDiversity(trends_before[i], d), trends_before)} :
            \E higher \in {ScoreTrend(WithDiversity(trends_before[i], d + 1), trends_before)} :
                /\ lower <= higher
                /\ d = 1 => lower = single
                /\ d \in 2..5 => lower = (single \div 100) * (100 + 8 * (d - 1))
                /\ higher <= (single \div 100) * 135
                /\ d = trends_before[i].source_diversity => trends[i].score = lower

\* a record merged from three sources was scored higher than it would have
\* been with two, and with two higher than with one
C16_Witness ==
    /\ ops = <<"dedup", "score">>
    /\ \E i \in 1..Len(trends) :
          /\ trends_before[i].source_diversity = 3
          /\ trends[i].score > ScoreTrend(WithDiversity(trends_before[i], 2), trends_before)
          /\ ScoreTrend(WithDiversity(trends_before[i], 2), trends_before)
                > ScoreTrend(WithDiversity(trends_before[i], 1), trends_before)

----------------------------------------------------------------------------
(* Final order *)

\* no record of the list has a greater score than the one before it
NonIncreasing(list) ==
    \A i \in 1..(Len(list) - 1) : list[i].score >= list[i + 1].score

\* C17: the list collect_all returns is ordered by non-increasing score, and
\* the order of records of equal score depends on the records only: two
\* runs whose collectors produced the same records in different orders, and
\* that end with the same records, return them in the same order.
C17_TiesByRecords ==
    ops = <<"rank">> =>
        /\ NonIncreasing(trends)
        /\ NonIncreasing(other_trends)
        /\ Range(trends) = Range(other_trends) => trends = other_trends

\* the returned list is ordered by non-increasing score
C17_NonIncreasing ==
    ops = <<"rank">> => (NonIncreasing(trends) /\ NonIncreasing(other_trends))

----------------------------------------------------------------------------
(* Source health *)

\* the probe of source s has returned and its endpoint answered the first
\* request with a response that is no HTTP error
Answered(s) ==
    /\ s \in DOMAIN finished
    /\ ~finished[s].raised
    /\ finished[s].script[1].kind = "resp"
    /\ finished[s].script[1].status_code < 400

\* C18: a feed source that answers with a well-formed feed of zero entries
\* is classified degraded, not down; one whose body cannot be parsed and
\* yields zero entries is classified down.
C18_EmptyFeedDegraded ==
    \A s \in DOMAIN finished :
        (/\ Answered(s)
         /\ ALL_SOURCES[s].kind = "rss"
         /\ finished[s].script[1].parsed.count = 0)
        => /\ finished[s].row.entry_count = 0
           /\ finished[s].row.status =
                 IF finished[s].script[1].parsed.bozo THEN "down" ELSE "degraded"

\* a well-formed feed without entries was classified degraded
C18_Witness ==
    \E s \in DOMAIN finished :
        /\ Answered(s)
        /\ ALL_SOURCES[s].kind = "rss"
        /\ finished[s].script[1].parsed.count = 0
        /\ ~finished[s].script[1].parsed.bozo
        /\ finished[s].row.status = "degraded"

\* the endpoint of source s fails the first request with a transient error
\* and would answer a second one with a well-formed feed that has entries
FailsThenAnswers(s) ==
    /\ s \in DOMAIN finished
    /\ ~finished[s].raised
    /\ ALL_SOURCES[s].kind = "rss"
    /\ finished[s].script[1] = Raises
    /\ finished[s].script[2] = Answer(200, "feed", FALSE, MaxEntries, EmptyDict)

\* C19: a probe whose first attempt fails with a transient error and whose
\* second attempt succeeds with a well-formed, non-empty feed is classified
\* flaky after two attempts, one failed and one successful.
C19_FlakyAfterRetry ==
    \A s \in DOMAIN finished :
        FailsThenAnswers(s) =>
            /\ finished[s].row.status = "flaky"
            /\ finished[s].requests = 2

\* healthy is reported only when the first attempt succeeds
C19_HealthyOnlyFirstAttempt ==
    \A s \in DOMAIN finished :
        (~finished[s].raised /\ finished[s].row.status = "healthy") => Answered(s)

\* C20: run_health_check returns a report with exactly one result for each
\* source of ALL_SOURCES, whatever the worker count and the order in which
\* the probes complete or fail, and the counts of healthy, degraded and
\* down in its summary add up to the total.
C20_OneResultPerSource ==
    report # EmptyDict =>
        /\ Len(report.sources) = Len(ALL_SOURCES)
        /\ \A s \in 1..Len(ALL_SOURCES) :
               Cardinality({i \in 1..Len(report.sources) :
                               report.sources[i].key = ALL_SOURCES[s].key}) = 1
        /\ report.summary.total = Len(ALL_SOURCES)
        /\ report.summary.healthy + report.summary.degraded + report.summary.down
              = report.summary.total

\* a report of a run with a single worker in which a probe failed with an
\* exception and the rows show all three classifications
C20_Witness ==
    /\ report # EmptyDict
    /\ PoolSize(report.workers) = 1
    /\ \E i \in 1..Len(report.sources) : report.sources[i] = FailedRow(ALL_SOURCES[1])
    /\ report.summary.healthy = 1
    /\ report.summary.degraded = 1
    /\ report.summary.down = 1

----------------------------------------------------------------------------
(* C21: the timeout of a request *)

\* the source of the latest _fetch_source_feed call
CallSource == CHOOSE source \in FeedSources : source.key = source_call.source

\* the timeout the sentence of the specification gives a request: the
\* per-domain override, else the per-source override, else a global default
DocumentedTimeouts(url, key) ==
    IF ProfileTimeout(Hostname(url)) # 0 THEN {ProfileTimeout(Hostname(url))}
    ELSE IF TimeoutSeconds(key) # 0 THEN {TimeoutSeconds(key)}
    ELSE {default_timeout, feed_timeout}

\* C21: every request is made with the per-domain override of its host when
\* there is one, otherwise the per-source override, otherwise the global
\* default.
C21_DomainOverrideFirst ==
    source_call # NoSourceFetch =>
        \A i \in 1..Len(source_call.requests) :
            source_call.requests[i].timeout
                \in DocumentedTimeouts(source_call.requests[i].url, source_call.source)

\* C21, what the code does: the timeout the collector passes (the
\* per-source override, else the collector's global default) is used for
\* every request, whatever override the host has.
C21_CallerTimeoutAlways ==
    source_call # NoSourceFetch =>
        \A i \in 1..Len(source_call.requests) :
            source_call.requests[i].timeout
                = CollectorTimeout(CallSource, default_timeout, feed_timeout)

\* C21: a request went to a host with an override of its own
C21_Witness ==
    /\ source_call # NoSourceFetch
    /\ \E i \in 1..Len(source_call.requests) :
           /\ ProfileTimeout(Hostname(source_call.requests[i].url)) # 0
           /\ source_call.requests[i].timeout
                  # ProfileTimeout(Hostname(source_call.requests[i].url))

----------------------------------------------------------------------------
(* C22: when the persisted tier is written to its file *)

\* C22: the file of the persisted tier is written only by the step that
\* ends the run, after every collector, the deduplication and the scoring,
\* only once, and only when the tier differs from what it was when the run
\* began, that is when a fetch of the run wrote an entry or dropped an
\* expired one.
C22_FlushOnceAtTheEnd ==
    [][file_writes' # file_writes =>
          /\ pc = LoopDone
          /\ pc' = Returned
          /\ Len(outputs) = NumCollectors
          /\ file_writes = <<>>
          /\ Len(file_writes') = 1
          /\ persistent_feed_cache # tier_at_start]_vars

\* C22: a run has returned after writing an empty tier to the file: every
\* fetch failed, and one of them dropped the expired entry the tier held
C22_Witness ==
    /\ pc = Returned
    /\ file_writes = <<EmptyDict>>
    /\ tier_at_start # EmptyDict

----------------
(* C23: what clears a scope's circuit state *)

\* the call made requests, none was accepted, and it returned a cached entry
ServedCacheAfterFailure ==
    /\ Called
    /\ last.reqs # <<>>
    /\ last.result.kind = "response"
    /\ last.result.origin \in {"memory", "persisted"}

\* C23: a call leaves its scope without circuit state, when the scope had a
\* count before, only if a network attempt of the call was accepted; and a
\* call whose network attempts all failed and that returns a cached entry
\* leaves the scope's failure count higher than it found it.
C23_OnlyAcceptedResponseClears ==
    /\ (/\ Called
        /\ CountAt(last.pre.feed_failures, last.scope, last.at) > 0
        /\ last.scope \notin DOMAIN feed_failures)
          => last.result.origin = "network"
    /\ ServedCacheAfterFailure
          => CountAt(feed_failures, last.scope, last.at)
                 > CountAt(last.pre.feed_failures, last.scope, last.at)

\* C23 for the calls that have no fallback to turn to
C23_NoFallbackKeepsCount == ~HasFallback => C23_OnlyAcceptedResponseClears

----------------------------------------------------------------------------
(* C24: responses that are not an acceptable feed *)

\* the response is recognised as a feed, in the words of the specification
RecognisedAsFeed(o) ==
    \/ Contains(Lower(o.ctype), <<120, 109, 108>>)                \* xml
    \/ Contains(Lower(o.ctype), <<114, 115, 115>>)                \* rss
    \/ \E tag \in {<<60, 114, 115, 115>>,                        \* <rss
                    <<60, 63, 120, 109, 108>>,                    \* <?xml
                    <<60, 102, 101, 101, 100>>} :                 \* <feed
           Contains(Lower(Take(o.content, 120)), tag)

\* session.get returned a response that is no acceptable feed
Rejected(o) ==
    /\ o.kind = "resp"
    /\ ~(o.status_code \in {200, 301, 302} /\ RecognisedAsFeed(o))

\* the script of the call with an exception in the place of every rejected
\* response
LastNetRaising ==
    [i \in 1..Len(last.net) |-> IF Rejected(last.net[i]) THEN NetRaise ELSE last.net[i]]

\* C24: a call returns a response of the network only when that response
\* has status 200, 301 or 302 and is recognised as a feed; a rejected
\* response is never in a cache tier; and the call ends exactly as it would
\* have had session.get raised in the place of every rejected response:
\* same requests, same result, same circuit state and caches.
C24_RejectedLikeException ==
    Called =>
        /\ last.result.origin = "network" =>
              LET o == last.net[Len(last.reqs)]
              IN  /\ o.kind = "resp"
                  /\ o.status_code \in {200, 301, 302}
                  /\ RecognisedAsFeed(o)
                  /\ last.result.resp.content = o.content
        /\ \A scope \in DOMAIN feed_cache :
              \A o \in {NetForbidden, NetHtml} :
                  feed_cache[scope].content # o.content
        /\ \A scope \in DOMAIN persistent_feed_cache :
              \A o \in {NetForbidden, NetHtml} :
                  persistent_feed_cache[scope].content_b64 # B64Encode(o.content)
        /\ \E r \in {FetchRss(last.pre, last.at, last.url, last.source_key,
                               last.fallback_url, TRUE, LastNetRaising)} :
              /\ r.reqs = last.reqs
              /\ r.result = last.result
              /\ r.c = Collector

\* C24: with a count on record for the scope, both attempts at the primary
\* were answered by a page that is no feed, then the fallback answered with
\* a feed
C24_Witness ==
    /\ Called
    /\ last.scope \in DOMAIN last.pre.feed_failures
    /\ last.net[1] = NetHtml
    /\ last.reqs = <<UrlDefense, UrlDefense, UrlPrimary>>
    /\ last.result.origin = "network"

----------------------------------------------------------------------------
(* C25: the canonical record of a cluster *)

\* the latest operation was _deduplicate
LastDedup == ops # <<>> /\ ops[Len(ops)] = "dedup"

\* the pair of the specification: (score times source-quality multiplier,
\* timestamp)
WeightedPair(record) ==
    <<(record.score \div 10000) * SourceQualityMultiplier(record.source),
      record.timestamp>>

\* pairs compared lexicographically
PairLess(p, q) == p[1] < q[1] \/ (p[1] = q[1] /\ p[2] < q[2])

\* the output record is the input record i, with what was merged into it
KeptFrom(out, list, i) ==
    /\ out.title = list[i].title
    /\ out.source = list[i].source
    /\ out.score = list[i].score

\* C25: of every cluster with more than one member the record kept is a
\* member whose pair (score times source-quality multiplier, timestamp) no
\* other member exceeds; so of the members with the greatest weighted score
\* one with the latest timestamp is kept.
C25_GreatestWeightedPair ==
    LastDedup =>
        \E clusters \in {Clusters(trends_before, config, 1, {})} :
            \A k \in 1..Len(clusters) :
                Len(clusters[k]) > 1 =>
                    \E i \in Range(clusters[k]) :
                        /\ KeptFrom(trends[k], trends_before, i)
                        /\ \A j \in Range(clusters[k]) :
                               ~PairLess(WeightedPair(trends_before[i]),
                                         WeightedPair(trends_before[j]))

\* C25: of two records with the same weighted score the second, more
\* recent one was kept
C25_Witness ==
    /\ ops = <<"dedup">>
    /\ Len(given) = 2
    /\ WeightedPair(given[1])[1] = WeightedPair(given[2])[1]
    /\ given[1].timestamp < given[2].timestamp
    /\ Len(trends) = 1
    /\ KeptFrom(trends[1], given, 2)

----------------------------------------------------------------------------
(* C26: which records join a cluster *)

\* the ways of putting n input records into m groups, none of them empty
Groupings(n, m) == {g \in [1..n -> 1..m] : \A k \in 1..m : \E i \in 1..n : g[i] = k}

GroupMembers(g, k) == {i \in DOMAIN g : g[i] = k}

\* the groups account for the output: record k was kept from a member of
\* group k and lists the sources of the members of the group, and the
\* groups are in the order of their first members
GroupsGiveOutput(g, list, out) ==
    /\ \A k \in 1..Len(out) :
           /\ \E i \in GroupMembers(g, k) : KeptFrom(out[k], list, i)
           /\ Range(out[k].corroborating_sources)
                 = {list[i].source : i \in GroupMembers(g, k)}
    /\ \A k, l \in 1..Len(out) :
           k < l => Min(GroupMembers(g, k)) < Min(GroupMembers(g, l))

\* every member of a group but its first shares a token with the first
\* member and meets one of the four duplicate criteria against it
JoinedBySeed(g, list, m, cfg) ==
    \A k \in 1..m :
        \A j \in GroupMembers(g, k) \ {Min(GroupMembers(g, k))} :
            /\ TitleTokens(list[Min(GroupMembers(g, k))].title)
                   \cap TitleTokens(list[j].title) # {}
            /\ IsDuplicate(list[Min(GroupMembers(g, k))].title, list[j].title, cfg)

\* no two members of a group are without a common token
MembersShareTokens(g, list, m) ==
    \A k \in 1..m :
        \A i, j \in GroupMembers(g, k) :
            i # j => TitleTokens(list[i].title) \cap TitleTokens(list[j].title) # {}

----------------------------------------------------------------------------
(* C27: the steps of the scorer *)

\* the keywords of a record, each taken once
OwnKeywords(record) == Range(record.keywords)

\* the keywords of a record that at least `least` records of the list hold
KeywordsHeldBy(record, list, least) ==
    {w \in OwnKeywords(record) :
        Cardinality({i \in 1..Len(list) : w \in OwnKeywords(list[i])}) >= least}

\* the four steps in their order, on a base score: the tier of the global
\* keywords, 0.10 for each keyword of more than one record, the source
\* multiplier (tier factor, then risk factor), the diversity boost; every
\* division is exact for the scores of the collectors
ComposedScore(base, globals, shared, record) ==
    LET tiered == CASE globals = 0 -> base
                    [] globals = 1 -> (base \div 100) * 115
                    [] globals = 2 -> (base \div 100) * 135
                    [] OTHER       -> (base \div 100) * 160
        added == tiered + shared * (ScoreUnit \div 10)
        tier_adjusted == (added \div 100) * TierBoost(SourceTier(record.source))
        calibrated == (tier_adjusted \div 100) * RiskAdjustment(SourceRisk(record.source))
    IN  IF record.source_diversity > 1
        THEN (calibrated \div 100) * (100 + Min({(record.source_diversity - 1) * 8, 35}))
        ELSE calibrated

\* the entries of the keyword list of a record that are in a set of words
EntriesIn(record, words) ==
    Cardinality({k \in 1..Len(record.keywords) : record.keywords[k] \in words})

\* C27: after _calculate_scores every record has the score composed once
\* from its base score by the four steps in their order: the tier chosen by
\* the number of its keywords that are global (held by at least three
\* records), 0.10 added for each of its keywords that more than one record
\* holds, the source multiplier, the diversity boost.  A word counts once for
\* every time it stands in the keyword list of the record.
C27_ComposedOnce ==
    Scored =>
        \A i \in 1..Len(trends) :
            trends[i].score =
                ComposedScore(trends_before[i].score,
                              EntriesIn(trends_before[i],
                                        KeywordsHeldBy(trends_before[i], trends_before, 3)),
                              EntriesIn(trends_before[i],
                                        KeywordsHeldBy(trends_before[i], trends_before, 2)),
                              trends_before[i])

\* C27: a record merged from two sources was scored with one global keyword
\* and one more keyword that two records hold, so that each of the four
\* steps changed its score
C27_Witness ==
    /\ ops = <<"dedup", "score">>
    /\ \E i \in 1..Len(trends) :
           /\ trends_before[i].source_diversity > 1
           /\ EntriesIn(trends_before[i], global_keywords) = 1
           /\ EntriesIn(trends_before[i],
                        KeywordsHeldBy(trends_before[i], trends_before, 2)) = 2
           /\ SourceQualityMultiplier(trends_before[i].source) # 10000
           /\ trends[i].score # trends_before[i].score

----------------------------------------------------------------------------
(* C28: the order of the Hacker News stories *)

\* the fetch of the story succeeded and its title was not filtered out
StoryKept(story_id) ==
    /\ Item(story_id).answer = "json"
    /\ Item(story_id).title # <<>>
    /\ IsEnglishText(Item(story_id).title)

\* the places of the top-stories list whose story was kept, in its order
KeptPlaces == Ascending({p \in 1..Len(story_ids) : StoryKept(story_ids[p])})

\* a story fetch ended with an exception _fetch_story does not catch
StoryRaised ==
    \E p \in 1..Len(story_ids) : StoryKept(story_ids[p]) /\ Item(story_ids[p]).score = Null

\* the returned trends are the stories of these places, in this order
StoriesOfPlaces(places) ==
    /\ Len(hn_trends) = Len(places)
    /\ \A k \in 1..Len(places) :
          /\ hn_trends[k].title = Item(story_ids[places[k]]).title
          /\ hn_trends[k].url \in {Item(story_ids[places[k]]).url,
                                   ItemUrl(story_ids[places[k]])}

\* C28: what _collect_hackernews returns are stories of the top-stories
\* list in the order of the list, whatever order their fetches completed in:
\* only stories whose fetch succeeded and whose title was kept, at most
\* limit of them, and, unless a story fetch ended with an uncaught
\* exception, the first limit of these
C28_TopStoriesOrder ==
    hn_pc = "returned" =>
        /\ Len(hn_trends) <= limit
        /\ \E places \in SUBSET (1..Len(story_ids)) :
              /\ \A p \in places : StoryKept(story_ids[p])
              /\ StoriesOfPlaces(Ascending(places))
        /\ ~StoryRaised /\ story_ids # <<>> => StoriesOfPlaces(Take(KeptPlaces, limit))

\* C28: the later of two kept stories was fetched first, a third fetch
\* failed, a fourth title was filtered out, and the two came back in the
\* order of the list
C28_Witness ==
    /\ hn_pc = "returned"
    /\ Len(hn_trends) = 2
    /\ Len(fetched) = 2
    /\ fetched[1].index > fetched[2].index
    /\ hn_trends = <<fetched[2].trend, fetched[1].trend>>
    /\ \E p \in 1..Len(story_ids) : Item(story_ids[p]).answer = "raises"
    /\ \E p \in 1..Len(story_ids) :
          Item(story_ids[p]).answer = "json" /\ ~IsEnglishText(Item(story_ids[p]).title)

----------------------------------------------------------------------------
(* C29: the end of a cooldown *)

\* the call was made for a scope whose cooldown deadline had passed
DeadlinePassed ==
    /\ Called
    /\ last.scope \in DOMAIN last.pre.feed_failures
    /\ last.pre.feed_failures[last.scope].cooldown_until > 0
    /\ last.at >= last.pre.feed_failures[last.scope].cooldown_until

\* the collector as it was at the call, without circuit state for the scope
LastPreCleared ==
    [last.pre EXCEPT !.feed_failures =
        [x \in (DOMAIN last.pre.feed_failures) \ {last.scope} |-> last.pre.feed_failures[x]]]

\* C29: the first fetch for a scope after its cooldown deadline makes a
\* network attempt, and one fetch being less than the threshold of two
\* failures, the scope is not on cooldown after it
C29_FurtherCooldownNeedsThreshold ==
    DeadlinePassed =>
        /\ last.reqs # <<>>
        /\ ~InCooldown(feed_failures, last.scope, last.at)

\* C29 with failures counted as _record_feed_failure counts them: a call
\* made for a scope after its cooldown deadline requests the primary url
\* again and leaves the collector as the same call does when the scope has
\* no failure on record, so the scope is on cooldown afterwards only with a
\* count that reached the threshold from zero; a scope whose count is below
\* the threshold has no deadline, is not on cooldown at any time, and a call
\* for it is not cut short
C29_CooldownEnds ==
    /\ DeadlinePassed =>
          /\ last.reqs # <<>>
          /\ last.reqs[1] = last.url
          /\ \E r \in {FetchRss(LastPreCleared, last.at, last.url, last.source_key,
                                last.fallback_url, TRUE, last.net)} :
                /\ r.reqs = last.reqs
                /\ r.result = last.result
                /\ r.c = Collector
          /\ last.scope \in DOMAIN feed_failures =>
                /\ feed_failures[last.scope].count <= 2
                /\ feed_failures[last.scope].cooldown_until > 0
                      => feed_failures[last.scope].count = feed_failure_threshold
    /\ \A scope \in DOMAIN feed_failures :
          feed_failures[scope].count < feed_failure_threshold =>
              /\ feed_failures[scope].cooldown_until = 0
              /\ \A t \in {0, now, now + 200} :
                    ~IsFeedOnCooldown(feed_failures, scope, t).on
    /\ (Called /\ (last.scope \in DOMAIN last.pre.feed_failures
                      => last.pre.feed_failures[last.scope].count < feed_failure_threshold))
          => last.reqs # <<>>

\* C29 for the calls that have no fallback to turn to
C29_NoFallbackNeedsThreshold == ~HasFallback => C29_FurtherCooldownNeedsThreshold

----------------------------------------------------------------------------
(* C30: the two tiers of the feed cache *)

\* every entry of the in-memory tier has a persisted entry of the same
\* capture: timestamp, content, content type, status and url
TiersAgree(memory, persisted) ==
    \A scope \in DOMAIN memory :
        /\ scope \in DOMAIN persisted
        /\ persisted[scope].form = "ok"
        /\ persisted[scope].timestamp = memory[scope].timestamp
        /\ B64Decode(persisted[scope].content_b64) = memory[scope].content
        /\ persisted[scope].ctype = memory[scope].ctype
        /\ persisted[scope].status_code = memory[scope].status_code
        /\ persisted[scope].url = memory[scope].url

\* the scope has a new or another entry in the tier after the step
Written(tier, tier_after, scope) ==
    /\ scope \in DOMAIN tier_after
    /\ scope \in DOMAIN tier => tier_after[scope] # tier[scope]

\* C30: in every state each scope with an in-memory entry has a persisted
\* entry of the same timestamp and content; a step writes a scope's entry in
\* one tier only when it writes it in the other; and a step drops a
\* persisted entry only of a scope whose in-memory entry was absent or
\* expired, and is absent after the step
C30_TiersWrittenTogether ==
    /\ [](TiersAgree(feed_cache, persistent_feed_cache))
    /\ [][\A scope \in (DOMAIN feed_cache') \cup (DOMAIN persistent_feed_cache') :
              Written(feed_cache, feed_cache', scope)
                  <=> Written(persistent_feed_cache, persistent_feed_cache', scope)]_vars
    /\ [][\A scope \in (DOMAIN persistent_feed_cache) \ (DOMAIN persistent_feed_cache') :
              /\ scope \notin DOMAIN feed_cache'
              /\ scope \in DOMAIN feed_cache
                    => now - feed_cache[scope].timestamp > feed_cache_ttl_seconds]_vars

\* C30: a call found both tiers holding the entry of an earlier fetch of its
\* scope, more than a day old, and dropped the in-memory entry and then the
\* persisted one
C30_Witness ==
    /\ Called
    /\ last.scope \in DOMAIN last.pre.feed_cache
    /\ last.scope \in DOMAIN last.pre.persistent_feed_cache
    /\ last.pre.feed_cache[last.scope].timestamp
          = last.pre.persistent_feed_cache[last.scope].timestamp
    /\ last.scope \notin DOMAIN feed_cache
    /\ last.scope \notin DOMAIN persistent_feed_cache
    /\ last.result.kind = "none"

====
